---- MODULE Spec2Model ----
(***************************************************************************)
(* Installation pipeline of GX_Installer: the orchestrator                 *)
(* (core/installer.py), the disk manager (core/disk.py), the system        *)
(* installer (core/system.py) and the profile manager (core/profiles.py).  *)
(*                                                                         *)
(* One behaviour is one call of one operation of the core by its caller:   *)
(* `entry` names the operation.  A text is a sequence of pieces, the empty *)
(* text is << >>; a hostname is a sequence of characters.                  *)
(***************************************************************************)
EXTENDS Integers, Sequences, FiniteSets, TLC

VARIABLES
    entry,        \* the operation the caller invoked
    config,       \* the configuration dict passed to the orchestrator
    pc,           \* position of the call
    stages,       \* orchestrator stages started so far, in order
    completed,    \* orchestrator stages that returned without raising
    events,       \* (message, percentage) pairs delivered to the progress sink
    device,       \* the target device and the machine, as the tools report them
    target,       \* profiles whose bundle and wrapper script are in the target root
    ip,           \* index of the next operation of the stage being executed
    trace,        \* operations executed so far (commands, file operations,
                  \* method entries), in order, each with its outcome
    failed,       \* names of the operations that failed
    sync,         \* the sync child process: "none", "running" or "exited"
    mntExists,    \* MOUNT_POINT.exists()
    rootMounted,  \* MOUNT_POINT.is_mount()
    bootMounted,  \* (MOUNT_POINT / "boot" / "efi").is_mount()
    exc,          \* the exception in flight or delivered to the caller
    result,       \* what the caller received: "none", "True", "returned", "raised"
    ret,          \* the value auto_partition returned
    cleanups,     \* calls of _cleanup_on_failure made
    mirrors,         \* the (name, url) list handed to test_mirrors_parallel
    max_workers,     \* size of the thread pool of the sweep
    probes,          \* per mirror: its test_mirror_speed call in the pool
    results,         \* what asyncio.gather delivered, PyNone before that
    sorted_mirrors,  \* what sort_mirrors_by_speed returned, PyNone before that
    mirror_cache,    \* the module global _mirror_cache
    cache_timestamp, \* the module global _cache_timestamp
    clock,           \* time.time(), in seconds
    current_time,    \* the local current_time of the get_cached_mirrors call
    cached_calls,    \* get_cached_mirrors calls finished so far, in order
    other,           \* the locals of the other get_cached_mirrors task of the
                     \* event loop, suspended at an await or not yet started
    fastest,         \* what get_fastest_mirror returned
    profiles_dir,    \* PROFILES_DIR of the live environment, as it is on disk
    discovered       \* the local list `profiles` of discover_profiles

mirrorVars == <<mirrors, max_workers, probes, results, sorted_mirrors,
                mirror_cache, cache_timestamp, clock, current_time,
                cached_calls, other, fastest>>

profileVars == <<profiles_dir, discovered>>

coreVars == <<config, device, target, ip, stages, completed, events, trace,
              failed, sync, mntExists, rootMounted, bootMounted, result, ret,
              cleanups, profileVars>>

vars == <<entry, pc, exc, coreVars, mirrorVars>>

-----------------------------------------------------------------------------
(* Texts and exceptions *)

NoKey == <<"<no key>">>
PyNone == <<"<None>">>

\* Python truthiness of a config value: None and the empty text are falsy
Truthy(v) == v # << >> /\ v # PyNone

NoExc == [type |-> "none", msg |-> << >>]
Exc(t, m) == [type |-> t, msg |-> m]

\* f"{prefix}: {e}"
Wrap(t, prefix, e) == [type |-> t, msg |-> <<prefix>> \o e.msg]

Event(m, p) == [msg |-> m, pct |-> p]

\* s is a contiguous part of t
Contains(t, s) ==
    \E i \in 0..(Len(t) - Len(s)) : SubSeq(t, i + 1, i + Len(s)) = s

-----------------------------------------------------------------------------
(* config/settings.py *)

FILESYSTEMS == {"ext4", "btrfs", "xfs", "f2fs"}
KERNELS == {<<"linux">>, <<"linux-lts">>, <<"linux-zen">>, <<"linux-hardened">>}

-----------------------------------------------------------------------------
(* utils/validation.py *)

Letters == {"g", "x"}
Digits == {"1"}
AlNum == Letters \cup Digits

\* re.match(VALIDATION["hostname"], hostname):
\* ^[a-zA-Z0-9][a-zA-Z0-9-]{0,62}[a-zA-Z0-9]?$
HostnamePattern(h) ==
    /\ Len(h) >= 1
    /\ h[1] \in AlNum
    /\ \A i \in 2..Len(h) : h[i] \in AlNum \cup {"-"}
    /\ (Len(h) <= 63 \/ (Len(h) = 64 /\ h[64] \in AlNum))

validate_hostname(h) ==
    IF ~Truthy(h) THEN FALSE
    ELSE IF Len(h) > 63 THEN FALSE
    ELSE IF ~HostnamePattern(h) THEN FALSE
    ELSE IF h[1] = "-" \/ h[Len(h)] = "-" THEN FALSE
    ELSE TRUE

-----------------------------------------------------------------------------
(* core/disk.py: the methods class DiskManager defines *)

DiskManagerMethods ==
    {"list_disks", "get_disk_info", "validate_disk_for_installation",
     "auto_partition", "_unmount_disk", "_create_swap_file",
     "_cleanup_mounts", "get_mount_status"}

\* getattr(self.disk_manager, name) succeeds
DiskManagerHas(name) == name \in DiskManagerMethods

AttributeError(name) ==
    Exc("AttributeError", <<"'DiskManager' object has no attribute", name>>)

-----------------------------------------------------------------------------
(* core/installer.py: GamerXInstaller *)

required_fields ==
    <<"disk", "hostname", "username", "password", "locale", "timezone", "kernel">>

\* _validate_config: every required field is a key with a truthy value
validate_config(cfg) ==
    \A i \in 1..Len(required_fields) :
        /\ required_fields[i] \in DOMAIN cfg
        /\ Truthy(cfg[required_fields[i]])

\* config.get(key, default)
Get(cfg, key, default) == IF key \in DOMAIN cfg THEN cfg[key] ELSE default

\* The statements of run_full_installation's try block, in order
Pipeline ==
    <<"ValidateConfig", "PrepareDisk", "InstallBase", "ConfigureSystem",
      "InstallProfiles", "Finalize">>

StageIndex(s) == CHOOSE i \in 1..Len(Pipeline) : Pipeline[i] = s

IsLast(s) == StageIndex(s) = Len(Pipeline)

\* A run_full_installation that leaves out the statement after stage s
AfterReturnSkipping(s) ==
    IF entry = "run_full_installation"
    THEN IF StageIndex(s) + 2 > Len(Pipeline) THEN "Done"
         ELSE Pipeline[StageIndex(s) + 2]
    ELSE "Returned"

\* Where control goes when stage s returns: to the next statement of
\* run_full_installation, or to the caller of the stage
AfterReturn(s) ==
    IF entry = "run_full_installation"
    THEN IF IsLast(s) THEN "Done" ELSE Pipeline[StageIndex(s) + 1]
    ELSE "Returned"

\* A run_full_installation that calls the stage again when it raised
AfterRaiseRetrying(s) ==
    IF entry = "run_full_installation" THEN s ELSE "Raised"

\* Where control goes when stage s raises: the except clause of
\* run_full_installation, or the caller of the stage
AfterRaise(s) ==
    IF entry = "run_full_installation" THEN "Except" ELSE "Raised"

-----------------------------------------------------------------------------
(* The operations a stage performs, in program order.  An "emit" delivers   *)
(* a progress event; "run" invokes an external command, "file" touches the  *)
(* filesystem and "spawn" starts a child process, and each of these may     *)
(* fail; "call" marks the entry of a method; "check" is                     *)
(* validate_profile_in_target.  scope is the method whose try block holds   *)
(* the operation and sid numbers the method calls of one stage.             *)

EmitOp(m, p, sc, id) ==
    [op |-> "emit", name |-> "emit", arg |-> "", msg |-> m, pct |-> p,
     scope |-> sc, sid |-> id]
Op(kind, n, a, sc, id) ==
    [op |-> kind, name |-> n, arg |-> a, msg |-> << >>, pct |-> 0,
     scope |-> sc, sid |-> id]

\* core/system.py, install_base_system
install_base_system_ops(id) ==
    LET sc == "install_base_system"
    IN  << EmitOp(<<"Installing base system...">>, 10, sc, id),
           Op("run", "pacstrap", "", sc, id),
           EmitOp(<<"Base system installed successfully">>, 25, sc, id) >>

\* core/system.py, generate_fstab
generate_fstab_ops(id) ==
    LET sc == "generate_fstab"
    IN  << EmitOp(<<"Generating fstab...">>, 30, sc, id),
           Op("run", "genfstab", "", sc, id),
           Op("file", "write", "etc/fstab", sc, id),
           EmitOp(<<"fstab generated successfully">>, 35, sc, id) >>

\* core/system.py, setup_network_in_chroot
setup_network_in_chroot_ops(mirror_url, id) ==
    LET sc == "setup_network_in_chroot"
    IN  << EmitOp(<<"Setting up network configuration...">>, 40, sc, id),
           Op("file", "copy", "etc/resolv.conf", sc, id),
           Op("file", IF Truthy(mirror_url) THEN "write" ELSE "copy",
              "etc/pacman.d/mirrorlist", sc, id),
           EmitOp(<<"Network configuration completed">>, 45, sc, id) >>

\* core/system.py, copy_installer_files
copy_installer_files_ops(id) ==
    LET sc == "copy_installer_files"
    IN  << EmitOp(<<"Copying installer files...">>, 50, sc, id),
           Op("file", "mkdir", "usr/local/bin", sc, id),
           Op("file", "copytree", "usr/local/bin/Installer", sc, id),
           Op("file", "copytree", "usr/local/bin/profiles", sc, id),
           EmitOp(<<"Installer files copied successfully">>, 55, sc, id) >>

\* core/system.py, set_hostname
set_hostname_ops(id) ==
    LET sc == "set_hostname"
    IN  << Op("file", "write", "etc/hostname", sc, id),
           Op("file", "write", "etc/hosts", sc, id) >>

\* core/system.py, configure_locale
configure_locale_ops(id) ==
    LET sc == "configure_locale"
    IN  << EmitOp(<<"Configuring locale...">>, 70, sc, id),
           Op("file", "rewrite", "etc/locale.gen", sc, id),
           Op("run", "locale-gen", "", sc, id),
           Op("file", "write", "etc/locale.conf", sc, id),
           EmitOp(<<"Locale configured successfully">>, 75, sc, id) >>

\* core/system.py, configure_timezone
configure_timezone_ops(id) ==
    LET sc == "configure_timezone"
    IN  << Op("run", "ln", "etc/localtime", sc, id),
           Op("run", "hwclock", "", sc, id) >>

PyTrue == <<"True">>
PyFalse == PyNone

\* core/system.py, create_user
create_user_ops(username, sudo_enabled, id) ==
    LET sc == "create_user"
    IN  << EmitOp(<<"Creating user account">> \o username, 60, sc, id),
           Op("run", "useradd", "", sc, id),
           Op("run", "chpasswd", "", sc, id) >>
        \o (IF Truthy(sudo_enabled)
            THEN << Op("run", "sh", "etc/sudoers.d", sc, id) >> ELSE << >>)
        \o << EmitOp(<<"User">> \o username \o <<"created successfully">>,
                     65, sc, id) >>

\* core/system.py, enable_services
enable_services_ops(id) ==
    LET sc == "enable_services"
    IN  << Op("run", "systemctl", "NetworkManager", sc, id),
           Op("run", "systemctl", "systemd-timesyncd", sc, id) >>

\* core/system.py, install_bootloader
install_bootloader_ops(id) ==
    LET sc == "install_bootloader"
    IN  << EmitOp(<<"Installing bootloader...">>, 80, sc, id),
           Op("run", "grub-install", "", sc, id),
           Op("run", "grub-mkconfig", "", sc, id),
           EmitOp(<<"Bootloader installed successfully">>, 85, sc, id) >>

\* core/system.py, install_packages
install_packages_ops(packages, id) ==
    LET sc == "install_packages"
    IN  IF ~Truthy(packages) THEN << >>
        ELSE << EmitOp(<<"Installing additional packages...">>, 90, sc, id),
                Op("run", "pacman", "-Sy", sc, id),
                Op("run", "pacman", "-S", sc, id),
                EmitOp(<<"Additional packages installed">>, 95, sc, id) >>

\* core/installer.py, _set_root_password
set_root_password_ops(id) ==
    << Op("run", "chpasswd", "root", "_set_root_password", id) >>

\* core/profiles.py, install_yay_and_aur_packages
install_yay_and_aur_packages_ops(id) ==
    LET sc == "install_yay_and_aur_packages"
    IN  << Op("call", sc, "", sc, id),
           Op("run", "su", "cd /tmp", sc, id),
           Op("run", "su", "git clone yay", sc, id),
           Op("run", "su", "cd yay", sc, id),
           Op("run", "su", "makepkg", sc, id) >>

\* An install_profile that makes the script executable before it validates
\* the profile in the target
install_profile_ops_chmod_first(profile_name, id) ==
    LET sc == "install_profile"
    IN  << Op("call", sc, profile_name, sc, id),
           Op("run", "chmod", profile_name, sc, id),
           Op("check", "validate_profile_in_target", profile_name, sc, id),
           Op("run", "install_script", profile_name, sc, id) >>

\* core/profiles.py, install_profile
install_profile_ops(profile_name, id) ==
    LET sc == "install_profile"
    IN  << Op("call", sc, profile_name, sc, id),
           Op("check", "validate_profile_in_target", profile_name, sc, id),
           Op("run", "chmod", profile_name, sc, id),
           Op("run", "install_script", profile_name, sc, id) >>

\* core/profiles.py, install_hyde_theme
install_hyde_theme_ops(id) ==
    LET sc == "install_hyde_theme"
    IN  << Op("call", sc, "", sc, id),
           Op("run", "su", "cd /tmp", sc, id),
           Op("run", "su", "git clone HyDE", sc, id),
           Op("run", "su", "cd HyDE", sc, id),
           Op("run", "su", "./install.sh", sc, id) >>

-----------------------------------------------------------------------------
(* core/installer.py: the stage coroutines as programs *)

\* An _install_base_system that sets up the network before generating fstab
InstallBaseProgramNetworkFirst(cfg) ==
    << EmitOp(<<"Installing base system...">>, 15, "_install_base_system", 0) >>
    \o install_base_system_ops(1)
    \o setup_network_in_chroot_ops(Get(cfg, "mirror_url", PyNone), 2)
    \o generate_fstab_ops(3)
    \o copy_installer_files_ops(4)
    \o << EmitOp(<<"Base system installation completed">>, 30,
                 "_install_base_system", 0) >>

\* _install_base_system, lines 119-143
InstallBaseProgram(cfg) ==
    << EmitOp(<<"Installing base system...">>, 15, "_install_base_system", 0) >>
    \o install_base_system_ops(1)
    \o generate_fstab_ops(2)
    \o setup_network_in_chroot_ops(Get(cfg, "mirror_url", PyNone), 3)
    \o copy_installer_files_ops(4)
    \o << EmitOp(<<"Base system installation completed">>, 30,
                 "_install_base_system", 0) >>

\* _configure_system, lines 145-177
ConfigureSystemProgram(cfg) ==
    << EmitOp(<<"Configuring system...">>, 35, "_configure_system", 0) >>
    \o set_hostname_ops(1)
    \o configure_locale_ops(2)
    \o configure_timezone_ops(3)
    \o create_user_ops(cfg["username"], Get(cfg, "sudo_enabled", PyTrue), 4)
    \o (IF Truthy(Get(cfg, "root_password", PyNone))
        THEN set_root_password_ops(5) ELSE << >>)
    \o enable_services_ops(6)
    \o << EmitOp(<<"System configuration completed">>, 50,
                 "_configure_system", 0) >>

\* A progress that adds 10 for each profile, whatever their number
ProfileProgressUnscaled(i, n) == 60 + (i * 10)

\* progress = 60 + (i * 10 // len(profiles)), i counted from 0
ProfileProgress(i, n) == 60 + ((i * 10) \div n)

RECURSIVE ProfileLoop(_, _)
\* lines 199-208, from the i-th profile (counted from 1) on
ProfileLoop(profiles, i) ==
    IF i > Len(profiles) THEN << >>
    ELSE << EmitOp(<<"Installing profile", profiles[i]>>,
                   ProfileProgress(i - 1, Len(profiles)),
                   "_install_profiles", 0) >>
         \o install_profile_ops(profiles[i], i + 1)
         \o ProfileLoop(profiles, i + 1)

\* An _install_profiles without the early return of lines 183-186
InstallProfilesProgramNoSkip(cfg) ==
    LET profiles == IF Truthy(Get(cfg, "profiles", << >>))
                    THEN Get(cfg, "profiles", << >>) ELSE << >>
        n == Len(profiles)
    IN  << EmitOp(<<"Installing profile(s)...">>, 55,
                  "_install_profiles", 0) >>
        \o install_yay_and_aur_packages_ops(1)
        \o ProfileLoop(profiles, 1)
        \o (IF \E i \in 1..n : profiles[i] = "Hyprland"
            THEN << EmitOp(<<"Installing HyDE theme...">>, 68,
                           "install_hyde_theme", n + 2) >>
                 \o install_hyde_theme_ops(n + 2)
            ELSE << >>)
        \o << EmitOp(<<"Profile installation completed">>, 70,
                     "_install_profiles", 0) >>

\* _install_profiles, lines 179-221
InstallProfilesProgram(cfg) ==
    LET profiles == Get(cfg, "profiles", << >>)
        n == Len(profiles)
    IN  IF ~Truthy(profiles)
        THEN << EmitOp(<<"Skipping profile installation">>, 70,
                       "_install_profiles", 0) >>
        ELSE << EmitOp(<<"Installing profile(s)...">>, 55,
                       "_install_profiles", 0) >>
             \o install_yay_and_aur_packages_ops(1)
             \o ProfileLoop(profiles, 1)
             \o (IF \E i \in 1..n : profiles[i] = "Hyprland"
                 THEN << EmitOp(<<"Installing HyDE theme...">>, 68,
                                "install_hyde_theme", n + 2) >>
                      \o install_hyde_theme_ops(n + 2)
                 ELSE << >>)
             \o << EmitOp(<<"Profile installation completed">>, 70,
                          "_install_profiles", 0) >>

\* _finalize_installation, lines 223-250; create_subprocess_exec starts sync
\* and is awaited, the process it returns is not
FinalizeProgram(cfg) ==
    LET additional_packages == Get(cfg, "additional_packages", << >>)
    IN  << EmitOp(<<"Installing bootloader...">>, 80,
                  "_finalize_installation", 0) >>
        \o install_bootloader_ops(1)
        \o (IF Truthy(additional_packages)
            THEN << EmitOp(<<"Installing additional packages...">>, 90,
                           "_finalize_installation", 0) >>
                 \o install_packages_ops(additional_packages, 2)
            ELSE << >>)
        \o << EmitOp(<<"Finalizing installation...">>, 95,
                     "_finalize_installation", 0),
              Op("spawn", "sync", "", "_finalize_installation", 0) >>

Program(s, cfg) ==
    CASE s = "InstallBase" -> InstallBaseProgram(cfg)
      [] s = "ConfigureSystem" -> ConfigureSystemProgram(cfg)
      [] s = "InstallProfiles" -> InstallProfilesProgram(cfg)
      [] s = "Finalize" -> FinalizeProgram(cfg)

\* An _install_profiles without the try block around the yay bootstrap
SwallowedExceptYay(scope) ==
    scope \in {"_set_root_password", "install_profile", "install_hyde_theme"}

\* An _install_profiles whose loop does not catch ProfileError
SwallowedOutsideLoop(scope) ==
    scope \in {"_set_root_password", "install_yay_and_aur_packages",
               "install_hyde_theme"}

\* Methods whose failure the orchestrator (or the method itself) catches and
\* logs: installer.py lines 193-196, 203-208, 212-216, 267-272
Swallowed(scope) ==
    scope \in {"_set_root_password", "install_yay_and_aur_packages",
               "install_profile", "install_hyde_theme"}

\* The ways an operation can end
Outcomes(o) ==
    IF o.name = "pacstrap" THEN {"ok", "exit", "timeout", "oserror"}
    ELSE {"ok", "fail"}

\* error_msg of the except clauses of core/system.py
ScopePrefix(scope) ==
    CASE scope = "install_base_system" -> "Base system installation failed"
      [] scope = "generate_fstab" -> "fstab generation failed"
      [] scope = "setup_network_in_chroot" -> "Network setup failed"
      [] scope = "copy_installer_files" -> "Failed to copy installer files"
      [] scope = "set_hostname" -> "Failed to set hostname"
      [] scope = "configure_locale" -> "Locale configuration failed"
      [] scope = "configure_timezone" -> "Timezone configuration failed"
      [] scope = "create_user" -> "User creation failed"
      [] scope = "enable_services" -> "Service enablement failed"
      [] scope = "install_bootloader" -> "Bootloader installation failed"
      [] scope = "install_packages" -> "Package installation failed"
      [] OTHER -> scope

\* An install_base_system without the except clause of TimeoutExpired: the
\* timeout is reported like a failed pacstrap
ScopeErrorWithoutTimeout(o, how) ==
    IF o.scope = "_finalize_installation"
    THEN Exc("OSError", <<o.name, how>>)
    ELSE IF o.scope = "install_base_system" /\ how \in {"timeout", "exit"}
    THEN Exc("SystemInstallError",
             <<ScopePrefix(o.scope), "pacstrap failed", "stderr">>)
    ELSE Exc("SystemInstallError", <<ScopePrefix(o.scope), o.name, how>>)

\* The exception a method raises to the stage when operation o ends `how`
ScopeError(o, how) ==
    IF o.scope = "_finalize_installation"
    THEN Exc("OSError", <<o.name, how>>)
    ELSE IF o.scope = "install_base_system" /\ how = "timeout"
    THEN Exc("SystemInstallError", <<"Base system installation timed out">>)
    ELSE IF o.scope = "install_base_system" /\ how = "exit"
    THEN Exc("SystemInstallError",
             <<ScopePrefix(o.scope), "pacstrap failed", "stderr">>)
    ELSE Exc("SystemInstallError", <<ScopePrefix(o.scope), o.name, how>>)

\* f-string prefix of the stage's except clause
StagePrefix(s) ==
    CASE s = "InstallBase" -> "Base system installation failed"
      [] s = "ConfigureSystem" -> "System configuration failed"
      [] s = "InstallProfiles" -> "Profile installation failed"
      [] s = "Finalize" -> "Installation finalization failed"

\* Stages whose except clauses all catch SystemInstallError only
StageErrorNarrow(s, e) ==
    IF e.type # "SystemInstallError" THEN e
    ELSE Wrap("InstallationError", StagePrefix(s), e)

\* The exception the stage raises for e: _install_base_system catches
\* SystemInstallError only, the other stages catch Exception
StageError(s, e) ==
    IF s = "InstallBase" /\ e.type # "SystemInstallError" THEN e
    ELSE Wrap("InstallationError", StagePrefix(s), e)

\* Index of the first operation after position i that is outside the method
\* call holding operation i
AfterScope(prog, i) ==
    IF \A j \in (i + 1)..Len(prog) : prog[j].sid = prog[i].sid
    THEN Len(prog) + 1
    ELSE CHOOSE j \in (i + 1)..Len(prog) :
            /\ prog[j].sid # prog[i].sid
            /\ \A k \in (i + 1)..(j - 1) : prog[k].sid = prog[i].sid

-----------------------------------------------------------------------------
(* run_full_installation and its stages *)

\* Stage s returned with the events ev delivered: lines 47-64
ReturnFrom(s, ev) ==
    /\ completed' = completed \cup {s}
    /\ pc' = AfterReturn(s)
    /\ ip' = 1
    /\ exc' = exc
    /\ IF entry = "run_full_installation" /\ IsLast(s)
       THEN /\ events' = Append(ev,
                    Event(<<"Installation completed successfully!">>, 100))
            /\ result' = "True"
       ELSE /\ events' = ev
            /\ result' = IF entry = "run_full_installation" THEN result
                         ELSE "returned"

\* Stage s raised e with the events ev delivered
RaiseFrom(s, ev, e) ==
    /\ completed' = completed
    /\ pc' = AfterRaise(s)
    /\ ip' = 1
    /\ exc' = e
    /\ events' = ev
    /\ result' = IF entry = "run_full_installation" THEN result ELSE "raised"

\* lines 40-41
Start ==
    /\ pc = "Start"
    /\ events' = Append(events, Event(<<"Starting installation...">>, 0))
    /\ pc' = "ValidateConfig"
    /\ UNCHANGED <<mirrorVars, profileVars, entry, config, device, target, ip, stages, completed, trace,
                   failed, sync, mntExists, rootMounted, bootMounted, exc,
                   result, ret, cleanups>>

\* lines 43-45
ValidateConfig ==
    /\ pc = "ValidateConfig"
    /\ stages' = Append(stages, "ValidateConfig")
    /\ IF validate_config(config)
       THEN ReturnFrom("ValidateConfig", events)
       ELSE RaiseFrom("ValidateConfig", events,
                      Exc("InstallationError", <<"Invalid configuration">>))
    /\ UNCHANGED <<mirrorVars, profileVars, entry, config, device, target, trace, failed, sync,
                   mntExists, rootMounted, bootMounted, ret, cleanups>>

\* The DiskManager calls of _prepare_disk, in order
PrepareDiskCalls(cfg) ==
    LET swap_size == Get(cfg, "swap_size", <<"2", "G">>)
    IN  <<"unmount_all", "auto_partition_disk", "format_partitions",
          "mount_partitions">>
        \o (IF Truthy(swap_size) /\ swap_size # <<"0">>
            THEN <<"create_swap_file">> ELSE << >>)

\* Index of the first call whose attribute lookup fails, 0 when none does
FirstMissing(calls) ==
    IF \A i \in 1..Len(calls) : DiskManagerHas(calls[i]) THEN 0
    ELSE CHOOSE i \in 1..Len(calls) :
            /\ ~DiskManagerHas(calls[i])
            /\ \A j \in 1..(i - 1) : DiskManagerHas(calls[j])

\* _prepare_disk, lines 90-117: the first call of a method DiskManager does
\* not define raises AttributeError, which the except clause wraps
PrepareDisk ==
    /\ pc = "PrepareDisk"
    /\ stages' = Append(stages, "PrepareDisk")
    /\ LET calls == PrepareDiskCalls(config)
           k == FirstMissing(calls)
           ev == Append(events, Event(<<"Preparing disk...">>, 5))
       IN  IF k # 0
           THEN RaiseFrom("PrepareDisk", ev,
                    Wrap("InstallationError", "Disk preparation failed",
                         AttributeError(calls[k])))
           ELSE ReturnFrom("PrepareDisk",
                    Append(ev, Event(<<"Disk preparation completed">>, 10)))
    /\ UNCHANGED <<mirrorVars, profileVars, entry, config, device, target, trace, failed, sync,
                   mntExists, rootMounted, bootMounted, ret, cleanups>>

\* An install_base_system that extends the caller's additional_packages
\* list with the base packages instead of a list of its own
ExecExtendingConfig(s) ==
    /\ pc = s
    /\ stages' = IF ip = 1 THEN Append(stages, s) ELSE stages
    /\ LET prog == Program(s, config)
           o == prog[ip]
           hows == IF o.op \in {"run", "file", "spawn"} THEN Outcomes(o)
                   ELSE IF o.op = "check"
                   THEN {IF o.arg \in target THEN "ok" ELSE "fail"}
                   ELSE {"ok"}
       IN  \E how \in hows :
            LET ev == IF o.op = "emit"
                      THEN Append(events, Event(o.msg, o.pct)) ELSE events
                next == IF how = "ok" THEN ip + 1 ELSE AfterScope(prog, ip)
            IN  /\ trace' = IF o.op = "emit" THEN trace
                            ELSE Append(trace,
                                    [op |-> o.op, name |-> o.name,
                                     arg |-> o.arg, msg |-> o.msg,
                                     scope |-> o.scope, how |-> how])
                /\ failed' = IF how = "ok" THEN failed
                             ELSE failed \cup {o.name}
                /\ sync' = IF o.op = "spawn" /\ how = "ok" THEN "running"
                           ELSE sync
                /\ IF how # "ok" /\ ~Swallowed(o.scope)
                   THEN RaiseFrom(s, ev, StageError(s, ScopeError(o, how)))
                   ELSE IF next > Len(prog)
                   THEN ReturnFrom(s, ev)
                   ELSE /\ events' = ev
                        /\ ip' = next
                        /\ UNCHANGED <<pc, exc, result, completed>>
    /\ config' = IF /\ Program(s, config)[ip].name = "pacstrap"
                    /\ "additional_packages" \in DOMAIN config
                 THEN [config EXCEPT
                         !["additional_packages"] = <<"base">> \o @]
                 ELSE config
    /\ UNCHANGED <<mirrorVars, profileVars, entry, device, target, mntExists, rootMounted,
                   bootMounted, ret, cleanups>>

\* One operation of stage s: the operation at ip of the stage's program
Exec(s) ==
    /\ pc = s
    /\ stages' = IF ip = 1 THEN Append(stages, s) ELSE stages
    /\ LET prog == Program(s, config)
           o == prog[ip]
           hows == IF o.op \in {"run", "file", "spawn"} THEN Outcomes(o)
                   ELSE IF o.op = "check"
                   THEN {IF o.arg \in target THEN "ok" ELSE "fail"}
                   ELSE {"ok"}
       IN  \E how \in hows :
            LET ev == IF o.op = "emit"
                      THEN Append(events, Event(o.msg, o.pct)) ELSE events
                next == IF how = "ok" THEN ip + 1 ELSE AfterScope(prog, ip)
            IN  /\ trace' = IF o.op = "emit" THEN trace
                            ELSE Append(trace,
                                    [op |-> o.op, name |-> o.name,
                                     arg |-> o.arg, msg |-> o.msg,
                                     scope |-> o.scope, how |-> how])
                /\ failed' = IF how = "ok" THEN failed
                             ELSE failed \cup {o.name}
                /\ sync' = IF o.op = "spawn" /\ how = "ok" THEN "running"
                           ELSE sync
                /\ IF how # "ok" /\ ~Swallowed(o.scope)
                   THEN RaiseFrom(s, ev, StageError(s, ScopeError(o, how)))
                   ELSE IF next > Len(prog)
                   THEN ReturnFrom(s, ev)
                   ELSE /\ events' = ev
                        /\ ip' = next
                        /\ UNCHANGED <<pc, exc, result, completed>>
    /\ UNCHANGED <<mirrorVars, profileVars, entry, config, device, target, mntExists, rootMounted,
                   bootMounted, ret, cleanups>>

InstallBase == Exec("InstallBase")
ConfigureSystem == Exec("ConfigureSystem")
InstallProfiles == Exec("InstallProfiles")
Finalize == Exec("Finalize")

\* The sync child process exits on its own
SyncExit ==
    /\ sync = "running"
    /\ sync' = "exited"
    /\ UNCHANGED <<mirrorVars, profileVars, entry, config, device, target, pc, ip, stages, completed,
                   events, trace, failed, mntExists, rootMounted, bootMounted,
                   exc, result, ret, cleanups>>

\* An error message that leaves out the exception's text
error_msg_generic(e) == <<"Installation failed">>

\* error_msg = f"Installation failed: {e}"
error_msg(e) == <<"Installation failed">> \o e.msg

\* lines 66-69
Except ==
    /\ pc = "Except"
    /\ events' = Append(events, Event(error_msg(exc), -1))
    /\ pc' = "Cleanup"
    /\ UNCHANGED <<mirrorVars, profileVars, entry, config, device, target, ip, stages, completed, trace,
                   failed, sync, mntExists, rootMounted, bootMounted, exc,
                   result, ret, cleanups>>

\* A _cleanup_on_failure without its try block: its exception replaces the
\* one in flight
CleanupRaising ==
    /\ pc = "Cleanup"
    /\ cleanups' = cleanups + 1
    /\ IF mntExists /\ ~DiskManagerHas("unmount_all_from_mount_point")
       THEN /\ failed' = failed \cup {"_cleanup_on_failure"}
            /\ exc' = AttributeError("unmount_all_from_mount_point")
       ELSE /\ failed' = failed
            /\ exc' = exc
    /\ pc' = "Reraise"
    /\ UNCHANGED <<mirrorVars, profileVars, entry, config, device, target, ip, stages, completed, events,
                   trace, sync, mntExists, rootMounted, bootMounted, result,
                   ret>>

\* A _cleanup_on_failure that reports its own progress to the sink
CleanupReporting ==
    /\ pc = "Cleanup"
    /\ cleanups' = cleanups + 1
    /\ events' = Append(events, Event(<<"Cleanup completed">>, 0))
    /\ IF mntExists /\ ~DiskManagerHas("unmount_all_from_mount_point")
       THEN failed' = failed \cup {"_cleanup_on_failure"}
       ELSE failed' = failed
    /\ pc' = "Reraise"
    /\ UNCHANGED <<mirrorVars, profileVars, entry, config, device, target, ip,
                   stages, completed, trace, sync, mntExists, rootMounted,
                   bootMounted, exc, result, ret>>

\* _cleanup_on_failure, lines 274-286, called at line 72: the lookup of
\* unmount_all_from_mount_point raises AttributeError and the except clause
\* logs it, so nothing is unmounted
Cleanup ==
    /\ pc = "Cleanup"
    /\ cleanups' = cleanups + 1
    /\ IF mntExists /\ ~DiskManagerHas("unmount_all_from_mount_point")
       THEN failed' = failed \cup {"_cleanup_on_failure"}
       ELSE failed' = failed
    /\ pc' = "Reraise"
    /\ UNCHANGED <<mirrorVars, profileVars, entry, config, device, target, ip, stages, completed, events,
                   trace, sync, mntExists, rootMounted, bootMounted, exc,
                   result, ret>>

\* line 73
Reraise ==
    /\ pc = "Reraise"
    /\ exc' = Exc("InstallationError", error_msg(exc))
    /\ result' = "raised"
    /\ pc' = "Failed"
    /\ UNCHANGED <<mirrorVars, profileVars, entry, config, device, target, ip, stages, completed, events,
                   trace, failed, sync, mntExists, rootMounted, bootMounted,
                   ret, cleanups>>

-----------------------------------------------------------------------------
(* core/disk.py: validate_disk_for_installation *)

AUTO == <<"a", "u", "t", "o">>
NONE == <<"n", "o", "n", "e">>

DigitChars == {"0", "1", "2", "3", "4", "5", "6", "7", "8", "9"}
DigitVal(c) ==
    CASE c = "0" -> 0 [] c = "1" -> 1 [] c = "2" -> 2 [] c = "3" -> 3
      [] c = "4" -> 4 [] c = "5" -> 5 [] c = "6" -> 6 [] c = "7" -> 7
      [] c = "8" -> 8 [] c = "9" -> 9
DigitChar(n) == CHOOSE c \in DigitChars : DigitVal(c) = n

RECURSIVE NatOf(_)
NatOf(t) ==
    IF t = << >> THEN 0
    ELSE NatOf(SubSeq(t, 1, Len(t) - 1)) * 10 + DigitVal(t[Len(t)])

\* int(t) returns a value: decimal digits with an optional sign
IsInt(t) ==
    LET d == IF t # << >> /\ t[1] = "-" THEN Tail(t) ELSE t
    IN  d # << >> /\ \A i \in 1..Len(d) : d[i] \in DigitChars

IntOf(t) == IF t[1] = "-" THEN 0 - NatOf(Tail(t)) ELSE NatOf(t)

EndsWith(t, c) == t # << >> /\ t[Len(t)] = c
AllButLast(t) == SubSeq(t, 1, Len(t) - 1)

Min(a, b) == IF a < b THEN a ELSE b
Max(a, b) == IF a > b THEN a ELSE b

\* ram_gb = ram_kb // (1024 * 1024)
RamGB(ram) == ram.kb \div (1024 * 1024)

\* lines 115-133: the swap size in GB, or raised when int() raises ValueError
\* outside the inner try block
SwapGB(swap_size, ram) ==
    IF swap_size = NONE THEN [raised |-> FALSE, gb |-> 0]
    ELSE IF swap_size = AUTO
    THEN CASE ram.kind = "ok" -> [raised |-> FALSE, gb |-> Min(RamGB(ram), 8)]
           [] ram.kind = "noline" -> [raised |-> FALSE, gb |-> 0]
           [] OTHER -> [raised |-> FALSE, gb |-> 2]
    ELSE IF EndsWith(swap_size, "G")
    THEN IF IsInt(AllButLast(swap_size))
         THEN [raised |-> FALSE, gb |-> IntOf(AllButLast(swap_size))]
         ELSE [raised |-> TRUE, gb |-> 0]
    ELSE IF EndsWith(swap_size, "M")
    THEN IF IsInt(AllButLast(swap_size))
         THEN [raised |-> FALSE,
               gb |-> Max(1, IntOf(AllButLast(swap_size)) \div 1024)]
         ELSE [raised |-> TRUE, gb |-> 0]
    ELSE [raised |-> FALSE, gb |-> 0]

Verdict(ok, reason, size, required, swap) ==
    [ok |-> ok, reason |-> reason, size |-> size, required |-> required,
     swap |-> swap]

\* A validation that leaves the 5 GB buffer out of the required space
validate_disk_without_buffer(dev, swap_size) ==
    LET sw == SwapGB(swap_size, dev.ram)
        total_required_gb == 10 + 1 + sw.gb
    IN  IF ~dev.lsblk_ok
        THEN Verdict(FALSE, "Validation failed", 0, 0, 0)
        ELSE IF dev.size_gb < 20
        THEN Verdict(FALSE, "Disk too small", dev.size_gb, 20, 0)
        ELSE IF sw.raised
        THEN Verdict(FALSE, "Validation failed", 0, 0, 0)
        ELSE IF dev.size_gb < total_required_gb
        THEN Verdict(FALSE, "Insufficient space", dev.size_gb,
                     total_required_gb, sw.gb)
        ELSE IF dev.is_mounted
        THEN Verdict(FALSE, "Disk is currently mounted and in use",
                     dev.size_gb, total_required_gb, sw.gb)
        ELSE Verdict(TRUE, "Disk suitable", dev.size_gb, total_required_gb,
                     sw.gb)

\* A validation that leaves out the check of lines 140-142
validate_disk_ignoring_mounts(dev, swap_size) ==
    LET sw == SwapGB(swap_size, dev.ram)
        total_required_gb == 10 + 1 + sw.gb + 5
    IN  IF ~dev.lsblk_ok
        THEN Verdict(FALSE, "Validation failed", 0, 0, 0)
        ELSE IF dev.size_gb < 20
        THEN Verdict(FALSE, "Disk too small", dev.size_gb, 20, 0)
        ELSE IF sw.raised
        THEN Verdict(FALSE, "Validation failed", 0, 0, 0)
        ELSE IF dev.size_gb < total_required_gb
        THEN Verdict(FALSE, "Insufficient space", dev.size_gb,
                     total_required_gb, sw.gb)
        ELSE Verdict(TRUE, "Disk suitable", dev.size_gb, total_required_gb,
                     sw.gb)

\* A validation whose except clause returns the pair without a reason
validate_disk_without_reason(dev, swap_size) ==
    LET sw == SwapGB(swap_size, dev.ram)
        total_required_gb == 10 + 1 + sw.gb + 5
    IN  IF ~dev.lsblk_ok
        THEN Verdict(FALSE, "", 0, 0, 0)
        ELSE IF dev.size_gb < 20
        THEN Verdict(FALSE, "Disk too small", dev.size_gb, 20, 0)
        ELSE IF sw.raised
        THEN Verdict(FALSE, "", 0, 0, 0)
        ELSE IF dev.size_gb < total_required_gb
        THEN Verdict(FALSE, "Insufficient space", dev.size_gb,
                     total_required_gb, sw.gb)
        ELSE IF dev.is_mounted
        THEN Verdict(FALSE, "Disk is currently mounted and in use",
                     dev.size_gb, total_required_gb, sw.gb)
        ELSE Verdict(TRUE, "Disk suitable", dev.size_gb, total_required_gb,
                     sw.gb)

\* lines 102-149; get_disk_info (lines 69-100) raises when lsblk fails
validate_disk_for_installation(dev, swap_size) ==
    LET sw == SwapGB(swap_size, dev.ram)
        total_required_gb == 10 + 1 + sw.gb + 5
    IN  IF ~dev.lsblk_ok
        THEN Verdict(FALSE, "Validation failed", 0, 0, 0)
        ELSE IF dev.size_gb < 20
        THEN Verdict(FALSE, "Disk too small", dev.size_gb, 20, 0)
        ELSE IF sw.raised
        THEN Verdict(FALSE, "Validation failed", 0, 0, 0)
        ELSE IF dev.size_gb < total_required_gb
        THEN Verdict(FALSE, "Insufficient space", dev.size_gb,
                     total_required_gb, sw.gb)
        ELSE IF dev.is_mounted
        THEN Verdict(FALSE, "Disk is currently mounted and in use",
                     dev.size_gb, total_required_gb, sw.gb)
        ELSE Verdict(TRUE, "Disk suitable", dev.size_gb, total_required_gb,
                     sw.gb)

-----------------------------------------------------------------------------
(* core/disk.py: auto_partition *)

\* A _create_swap_file that never asks for less than 1 GB
SwapFileSizeAtLeastOne(swap_size, ram) ==
    IF swap_size = AUTO /\ ram.kind = "ok"
    THEN <<DigitChar(Max(1, Min(RamGB(ram), 8))), "G">>
    ELSE swap_size

\* The swap size _create_swap_file passes to fallocate (lines 275-283): for
\* "auto" without a MemTotal line the text stays "auto"
SwapFileSize(swap_size, ram) ==
    IF swap_size = AUTO /\ ram.kind = "ok"
    THEN <<DigitChar(Min(RamGB(ram), 8)), "G">>
    ELSE swap_size

\* _create_swap_file, lines 271-305
create_swap_file_ops(swap_size, ram) ==
    LET sc == "_create_swap_file"
        size == SwapFileSize(swap_size, ram)
    IN  (IF swap_size = AUTO
         THEN << Op("file", "read", "/proc/meminfo", sc, 2) >> ELSE << >>)
        \o << [Op("run", "fallocate", "swapfile", sc, 2) EXCEPT !.msg = size],
              Op("run", "chmod", "swapfile", sc, 2),
              Op("run", "mkswap", "swapfile", sc, 2) >>

\* _unmount_disk, lines 249-269: one umount for each partition node found
unmount_disk_ops(dev) ==
    [i \in 1..dev.parts |-> Op("run", "umount", "partition", "_unmount_disk", 1)]

\* An auto_partition that mounts the boot partition before the root
AutoPartitionProgramBootFirst(filesystem, swap_size, dev) ==
    LET sc == "auto_partition"
    IN  unmount_disk_ops(dev)
        \o << Op("run", "wipefs", "disk", sc, 0),
              Op("run", "sgdisk", "-Z", sc, 0),
              Op("run", "sgdisk", "-n 1", sc, 0),
              Op("run", "sgdisk", "-n 2", sc, 0),
              Op("run", "partprobe", "disk", sc, 0),
              Op("run", "mkfs.fat", "boot", sc, 0),
              Op("run", "mkfs", filesystem, sc, 0),
              Op("file", "mkdir", "mount_point", sc, 0),
              Op("file", "mkdir", "boot/efi", sc, 0),
              Op("run", "mount", "boot", sc, 0),
              Op("run", "mount", "root", sc, 0) >>
        \o (IF swap_size # NONE
            THEN create_swap_file_ops(swap_size, dev.ram) ELSE << >>)

\* The try block of auto_partition after validation, lines 165-221
AutoPartitionProgram(filesystem, swap_size, dev) ==
    LET sc == "auto_partition"
    IN  unmount_disk_ops(dev)
        \o << Op("run", "wipefs", "disk", sc, 0),
              Op("run", "sgdisk", "-Z", sc, 0),
              Op("run", "sgdisk", "-n 1", sc, 0),
              Op("run", "sgdisk", "-n 2", sc, 0),
              Op("run", "partprobe", "disk", sc, 0),
              Op("run", "mkfs.fat", "boot", sc, 0),
              Op("run", "mkfs", filesystem, sc, 0),
              Op("file", "mkdir", "mount_point", sc, 0),
              Op("run", "mount", "root", sc, 0),
              Op("file", "mkdir", "boot/efi", sc, 0),
              Op("run", "mount", "boot", sc, 0) >>
        \o (IF swap_size # NONE
            THEN create_swap_file_ops(swap_size, dev.ram) ELSE << >>)

\* A length fallocate accepts: a positive number with a unit
ValidLength(size) ==
    /\ EndsWith(size, "G") \/ EndsWith(size, "M")
    /\ AllButLast(size) # << >>
    /\ \A i \in 1..(Len(size) - 1) : size[i] \in DigitChars
    /\ NatOf(AllButLast(size)) > 0

\* The ways operation o of auto_partition can end on this machine
DiskOutcomes(o, dev) ==
    IF o.name = "read"
    THEN IF dev.ram.kind \in {"unreadable", "garbage"}
         THEN {"oserror"} ELSE {"ok"}
    ELSE IF o.name = "fallocate" /\ ~ValidLength(o.msg) THEN {"exit"}
    ELSE IF o.op = "file" THEN {"ok", "oserror"}
    ELSE {"ok", "exit", "oserror"}

\* lines 237-247: the message of the DiskError raised for a failure
DiskError(how, detail) ==
    Exc("DiskError",
        <<IF how = "exit" THEN "Partitioning failed"
          ELSE "Unexpected error during partitioning">> \o detail)

Entry(o, how) ==
    [op |-> o.op, name |-> o.name, arg |-> o.arg, msg |-> o.msg,
     scope |-> o.scope, how |-> how]

\* lines 155-163: the filesystem check and the disk validation
AutoPartitionValidate ==
    /\ pc = "auto_partition"
    /\ LET v == validate_disk_for_installation(device, config["swap_size"])
       IN  IF config["filesystem"] \notin FILESYSTEMS
           THEN /\ exc' = DiskError("raise", <<"Unsupported filesystem">>)
                /\ pc' = "CleanupBoot"
                /\ trace' = trace
           ELSE /\ trace' = Append(trace,
                        Entry(Op("run", "lsblk", "disk", "get_disk_info", 0),
                              IF device.lsblk_ok THEN "ok" ELSE "exit"))
                /\ IF v.ok
                   THEN pc' = "AutoPartitionBody" /\ exc' = exc
                   ELSE /\ exc' = DiskError("raise",
                                    <<"Disk validation failed", v.reason>>)
                        /\ pc' = "CleanupBoot"
    /\ ip' = 1
    /\ UNCHANGED <<mirrorVars, profileVars, entry, config, device, target, stages, completed, events,
                   failed, sync, mntExists, rootMounted, bootMounted, result,
                   ret, cleanups>>

\* swap_info, lines 219-221 and 301-305
SwapInfo(swap_size, ram, swapFailed) ==
    IF swap_size = NONE THEN <<"No swap">>
    ELSE IF swapFailed THEN <<"Swap file creation failed">>
    ELSE <<"Swap file created">> \o SwapFileSize(swap_size, ram)

\* One operation of lines 165-221; after the last one, lines 223-235
AutoPartitionStep ==
    /\ pc = "AutoPartitionBody"
    /\ LET prog == AutoPartitionProgram(config["filesystem"],
                                        config["swap_size"], device)
           o == prog[ip]
       IN  \E how \in DiskOutcomes(o, device) :
            LET ignored == o.scope = "_unmount_disk"
                swallowed == o.scope = "_create_swap_file"
                next == IF how = "ok" \/ ignored THEN ip + 1
                        ELSE AfterScope(prog, ip)
                raises == how # "ok" /\ ~ignored /\ ~swallowed
                fl == IF how = "ok" THEN failed ELSE failed \cup {o.name}
            IN  /\ trace' = Append(trace, Entry(o, how))
                /\ failed' = fl
                /\ mntExists' = (mntExists \/ (o.name = "mkdir" /\ how = "ok"))
                /\ rootMounted' =
                     (rootMounted \/ (o.name = "mount" /\ o.arg = "root"
                                      /\ how = "ok"))
                /\ bootMounted' =
                     (bootMounted \/ (o.name = "mount" /\ o.arg = "boot"
                                      /\ how = "ok"))
                /\ IF raises
                   THEN /\ exc' = DiskError(how, <<o.name, o.arg>>)
                        /\ pc' = "CleanupBoot"
                        /\ ip' = 1
                        /\ UNCHANGED <<result, ret>>
                   ELSE IF next > Len(prog)
                   THEN /\ ret' = [status |-> "success",
                                   swap_info |->
                                     SwapInfo(config["swap_size"], device.ram,
                                        fl \cap {"read", "fallocate", "chmod",
                                                 "mkswap"} # {})]
                        /\ result' = "returned"
                        /\ pc' = "Returned"
                        /\ ip' = 1
                        /\ exc' = exc
                   ELSE /\ ip' = next
                        /\ UNCHANGED <<pc, exc, result, ret>>
    /\ UNCHANGED <<mirrorVars, profileVars, entry, config, device, target, stages, completed, events,
                   sync, cleanups>>

\* _cleanup_mounts, lines 311-313: the boot mount; an exception of
\* subprocess.run leaves the method through its except clause (line 318)
CleanupBoot ==
    /\ pc = "CleanupBoot"
    /\ IF bootMounted
       THEN \E how \in {"ok", "exit", "oserror"} :
            LET o == Op("run", "umount", "boot", "_cleanup_mounts", 0)
            IN  /\ trace' = Append(trace, Entry(o, how))
                /\ bootMounted' = (how # "ok")
                /\ failed' = IF how = "ok" THEN failed
                             ELSE failed \cup {"umount"}
                /\ pc' = IF how = "oserror" THEN "RaiseDiskError"
                         ELSE "CleanupRoot"
       ELSE /\ pc' = "CleanupRoot"
            /\ UNCHANGED <<trace, bootMounted, failed>>
    /\ UNCHANGED <<mirrorVars, profileVars, entry, config, device, target, ip, stages, completed,
                   events, sync, mntExists, rootMounted, exc, result, ret,
                   cleanups>>

\* _cleanup_mounts, lines 315-316: the root mount, which is busy while the
\* boot partition is mounted beneath it
CleanupRoot ==
    /\ pc = "CleanupRoot"
    /\ IF rootMounted
       THEN \E how \in (IF bootMounted THEN {"exit", "oserror"}
                        ELSE {"ok", "exit", "oserror"}) :
            LET o == Op("run", "umount", "root", "_cleanup_mounts", 0)
            IN  /\ trace' = Append(trace, Entry(o, how))
                /\ rootMounted' = (how # "ok")
                /\ failed' = IF how = "ok" THEN failed
                             ELSE failed \cup {"umount"}
       ELSE UNCHANGED <<trace, rootMounted, failed>>
    /\ pc' = "RaiseDiskError"
    /\ UNCHANGED <<mirrorVars, profileVars, entry, config, device, target, ip, stages, completed,
                   events, sync, mntExists, bootMounted, exc, result, ret,
                   cleanups>>

\* lines 242 and 247
RaiseDiskError ==
    /\ pc = "RaiseDiskError"
    /\ result' = "raised"
    /\ pc' = "Raised"
    /\ UNCHANGED <<mirrorVars, profileVars, entry, config, device, target, ip, stages, completed,
                   events, trace, failed, sync, mntExists, rootMounted,
                   bootMounted, exc, ret, cleanups>>

-----------------------------------------------------------------------------
(* Inputs *)

MaxProfiles == 3

\* Mount state of the target mount point when the call starts
MountStates ==
    { [exists |-> FALSE, root |-> FALSE, boot |-> FALSE],
      [exists |-> TRUE,  root |-> FALSE, boot |-> FALSE],
      [exists |-> TRUE,  root |-> TRUE,  boot |-> FALSE],
      [exists |-> TRUE,  root |-> TRUE,  boot |-> TRUE] }

\* What /proc/meminfo yields: unreadable file, no MemTotal line, a MemTotal
\* value int() rejects, or MemTotal in kB
RamReadings ==
    { [kind |-> "unreadable", kb |-> 0], [kind |-> "noline", kb |-> 0],
      [kind |-> "garbage", kb |-> 0],
      [kind |-> "ok", kb |-> 524288], [kind |-> "ok", kb |-> 4194304],
      [kind |-> "ok", kb |-> 16777216] }

Ram4GB == [kind |-> "ok", kb |-> 4194304]

\* The 25 GB device of a 4 GB machine
Device25(mounted) ==
    [size_gb |-> 25, is_mounted |-> mounted, lsblk_ok |-> TRUE, parts |-> 0,
     ram |-> Ram4GB]

SwapSizes ==
    { NONE, AUTO, <<"4", "G">>, <<"9", "G">>, <<"0", "G">>,
      <<"2", "0", "4", "8", "M">>, <<"5", "1", "2", "M">>, <<"0", "M">>,
      <<"x", "G">>, <<"0">> }

\* The arguments of auto_partition and the machine it runs on. The RAM
\* reading varies for swap size "auto", where alone it is read; the state
\* of the mount point and the partition count vary for two representative
\* calls, the state of the mount point also for a call with an unsupported
\* filesystem
FreshTarget == [exists |-> TRUE, root |-> FALSE, boot |-> FALSE]

PartitionInputs ==
    { [config |-> [disk |-> <<"/dev/sda">>, filesystem |-> fs,
                   swap_size |-> sw],
       device |-> [size_gb |-> sz, is_mounted |-> mt, lsblk_ok |-> TRUE,
                   parts |-> 2, ram |-> rm],
       mounts |-> FreshTarget] :
        fs \in {"ext4", "btrfs", "xfs", "f2fs", "ntfs"},
        sw \in SwapSizes, sz \in {19, 20, 24, 25}, mt \in BOOLEAN,
        rm \in RamReadings }

PartitionCalls ==
    { c \in PartitionInputs :
        c.config.swap_size # AUTO => c.device.ram = Ram4GB }
    \cup { [config |-> [disk |-> <<"/dev/sda">>, filesystem |-> "ext4",
                        swap_size |-> sw],
            device |-> [Device25(FALSE) EXCEPT !.parts = pt],
            mounts |-> m] :
             sw \in {NONE, <<"4", "G">>}, pt \in {0, 2},
             m \in MountStates }
    \cup { [config |-> [disk |-> <<"/dev/sda">>, filesystem |-> "ext4",
                        swap_size |-> NONE],
            device |-> [Device25(FALSE) EXCEPT !.lsblk_ok = FALSE],
            mounts |-> FreshTarget] }
    \cup { [config |-> [disk |-> <<"/dev/sda">>, filesystem |-> "ntfs",
                        swap_size |-> NONE],
            device |-> Device25(FALSE),
            mounts |-> m] : m \in MountStates }

\* The dict holding the keys of f whose value is not NoKey
Dict(f) == [k \in {x \in DOMAIN f : f[x] # NoKey} |-> f[k]]

Hostnames == {NoKey, << >>, <<"g", "x">>, <<"-", "g">>, <<"g", "-">>}

\* Configurations a caller may submit to run_full_installation
RunConfigs ==
    { Dict([disk |-> d, hostname |-> h, username |-> u, password |-> p,
            locale |-> l, timezone |-> t, kernel |-> k, swap_size |-> s,
            profiles |-> pr]) :
        d \in {NoKey, PyNone, <<"/dev/sda">>},
        h \in Hostnames,
        u \in {NoKey, <<"gamer">>},
        p \in {<< >>, <<"validpass1">>},
        l \in {NoKey, <<"en_US.UTF-8">>},
        t \in {<< >>, <<"UTC">>},
        k \in {NoKey, <<"linux">>, <<"windows">>},
        s \in {<<"0">>, AUTO},
        pr \in {<< >>} }

ProfileNames == {"Hyprland", "Gaming"}

ProfileLists ==
    UNION { [1..n -> ProfileNames] : n \in 0..MaxProfiles }

\* A configuration that passed _validate_config, with the optional keys opt
ValidConfig(opt) ==
    Dict([disk |-> <<"/dev/sda">>, hostname |-> <<"g", "x">>,
          username |-> <<"gamer">>, password |-> <<"validpass1">>,
          locale |-> <<"en_US.UTF-8">>, timezone |-> <<"UTC">>,
          kernel |-> <<"linux">>, swap_size |-> AUTO,
          profiles |-> opt.profiles,
          additional_packages |-> opt.additional_packages,
          root_password |-> opt.root_password,
          mirror_url |-> opt.mirror_url])

NoOptions ==
    [profiles |-> NoKey, additional_packages |-> NoKey,
     root_password |-> NoKey, mirror_url |-> NoKey]

Mounts(m) ==
    /\ mntExists = m.exists
    /\ rootMounted = m.root
    /\ bootMounted = m.boot

TargetMounted == [exists |-> TRUE, root |-> TRUE, boot |-> TRUE]

\* await installer.run_full_installation(config)
InitRun ==
    /\ entry = "run_full_installation"
    /\ config \in RunConfigs
    /\ pc = "Start"
    /\ \E mounted \in BOOLEAN : device = Device25(mounted)
    /\ target = {}
    /\ \E m \in MountStates : Mounts(m)

\* disk_manager.auto_partition(disk_path, filesystem, swap_size)
InitAutoPartition ==
    /\ entry = "auto_partition"
    /\ \E c \in PartitionCalls :
          config = c.config /\ device = c.device /\ Mounts(c.mounts)
    /\ pc = "auto_partition"
    /\ target = {}

\* One stage coroutine called on a prepared target
InitStage ==
    /\ device = Device25(FALSE)
    /\ Mounts(TargetMounted)
    /\ \/ /\ entry = "_install_base_system"
          /\ pc = "InstallBase"
          /\ target = {}
          /\ \E m \in {NoKey, <<"https://mirror/$repo/os/$arch">>},
                a \in {NoKey, <<"vim">>} :
                config = ValidConfig([NoOptions EXCEPT
                            !.mirror_url = m, !.additional_packages = a])
       \/ /\ entry = "_configure_system"
          /\ pc = "ConfigureSystem"
          /\ target = {}
          /\ \E r \in {NoKey, << >>, <<"rootpass1">>} :
                config = ValidConfig([NoOptions EXCEPT !.root_password = r])
       \/ /\ entry = "_install_profiles"
          /\ pc = "InstallProfiles"
          /\ target \in SUBSET ProfileNames
          /\ \E pr \in ProfileLists \cup {NoKey} :
                config = ValidConfig([NoOptions EXCEPT !.profiles = pr])
       \/ /\ entry = "_finalize_installation"
          /\ pc = "Finalize"
          /\ target = {}
          /\ \E a \in {NoKey, << >>, <<"vim">>} :
                config = ValidConfig([NoOptions EXCEPT
                            !.additional_packages = a])

-----------------------------------------------------------------------------
(* Mirror testing (config/mirrors.py).  A display name is a text whose     *)
(* pieces are words, single digits and the separators " ", "(", ")" and    *)
(* "ms", so that split('(') and split('ms') see every separator of it.     *)

MAX_PARALLEL_MIRRORS == 20

\* Entries of the catalogue, among them one whose name holds parentheses
WORLDWIDE_MIRRORS ==
    << [name |-> <<"MIT", " ", "(", "Massachusetts", ")">>,
        url  |-> "https://mirrors.mit.edu/archlinux/$repo/os/$arch"],
       [name |-> <<"Georgia", " ", "Tech">>,
        url  |-> "https://www.gtlib.gatech.edu/pub/archlinux/$repo/os/$arch"],
       [name |-> <<"Worldwide", " ", "CDN">>,
        url  |-> "https://geo.mirror.pkgbuild.com/$repo/os/$arch"] >>

\* None in the speed_ms slot of a result tuple
NoSpeed == 0 - 1

\* test_mirror_speed returns (name, url, speed_ms, None) when the download
\* finished, and (name, url, None, error_msg) on any exception of the probe
test_mirror_speed(mirror_data, outcome) ==
    IF outcome.ok
    THEN [name |-> mirror_data.name, url |-> mirror_data.url,
          speed_ms |-> outcome.speed_ms, error_msg |-> PyNone]
    ELSE [name |-> mirror_data.name, url |-> mirror_data.url,
          speed_ms |-> NoSpeed, error_msg |-> outcome.error_msg]

\* str(n) of a non-negative int
RECURSIVE StrOfNat(_)
StrOfNat(n) ==
    IF n < 10 THEN <<DigitChar(n)>>
    ELSE StrOfNat(n \div 10) \o <<DigitChar(n % 10)>>

\* t.split(sep): the segments of t between the occurrences of sep
RECURSIVE split(_, _)
split(t, sep) ==
    IF \A i \in 1..Len(t) : t[i] # sep THEN <<t>>
    ELSE LET i == CHOOSE k \in 1..Len(t) :
                      t[k] = sep /\ \A j \in 1..(k - 1) : t[j] # sep
         IN  <<SubSeq(t, 1, i - 1)>> \o split(SubSeq(t, i + 1, Len(t)), sep)

\* int() ignores surrounding whitespace
RECURSIVE strip(_)
strip(t) ==
    IF t # << >> /\ t[1] = " " THEN strip(Tail(t))
    ELSE IF t # << >> /\ t[Len(t)] = " " THEN strip(AllButLast(t))
    ELSE t

\* f"{name} ({speed_ms}ms)" and f"{name} (Failed: {error_msg})"
WorkingName(name, speed_ms) ==
    name \o <<" ", "(">> \o StrOfNat(speed_ms) \o <<"ms", ")">>

FailedName(name, msg) ==
    name \o <<" ", "(", "Failed: ">> \o msg \o <<")">>

DisplayTuple(r) ==
    IF r.speed_ms # NoSpeed
    THEN [display_name |-> WorkingName(r.name, r.speed_ms), url |-> r.url,
          status |-> "working"]
    ELSE [display_name |-> FailedName(r.name, r.error_msg), url |-> r.url,
          status |-> "failed"]

RECURSIVE DisplayTuples(_)
DisplayTuples(rs) ==
    IF rs = << >> THEN << >>
    ELSE <<DisplayTuple(Head(rs))>> \o DisplayTuples(Tail(rs))

IsWorking(x) == x.status = "working"
IsFailed(x) == x.status = "failed"

\* x[0].split('(')[1].split('ms')[0], the text the sort key hands to int()
KeyText(x) == split(split(x.display_name, "(")[2], "ms")[1]

\* int(...) of the key raises ValueError unless the text is a number
KeyRaises(x) == ~IsInt(strip(KeyText(x)))
SortKey(x) == IntOf(strip(KeyText(x)))

\* list.sort(key=...): stable, ascending
RECURSIVE InsertByKey(_, _)
InsertByKey(x, sorted) ==
    IF sorted = << >> THEN <<x>>
    ELSE IF SortKey(x) < SortKey(Head(sorted)) THEN <<x>> \o sorted
    ELSE <<Head(sorted)>> \o InsertByKey(x, Tail(sorted))

RECURSIVE SortByKey(_)
SortByKey(xs) ==
    IF xs = << >> THEN << >>
    ELSE InsertByKey(xs[Len(xs)], SortByKey(AllButLast(xs)))

\* sort_mirrors_by_speed(results): the list it returns, or the exception
\* of the sort key
sort_mirrors_by_speed(rs) ==
    LET working_mirrors == SelectSeq(DisplayTuples(rs), IsWorking)
        failed_mirrors  == SelectSeq(DisplayTuples(rs), IsFailed)
    IN  IF \E i \in 1..Len(working_mirrors) : KeyRaises(working_mirrors[i])
        THEN [exc |-> Exc("ValueError",
                          <<"invalid literal for int() with base 10">>),
              value |-> PyNone]
        ELSE [exc |-> NoExc,
              value |-> SortByKey(working_mirrors) \o failed_mirrors]

\* An Optional[list]: None, or the list
NoList == << >>
Some(l) == <<l>>

cache_duration == 300

\* What one probe can meet: a download that took speed_ms, or an exception
\* (a refused connection, an HTTP error, the timeout of urlopen)
Latencies == {9, 12}
ProbeErrors == {<<"timed out">>}
ProbeOutcomes ==
    {[ok |-> TRUE, speed_ms |-> l, error_msg |-> PyNone] : l \in Latencies}
      \cup {[ok |-> FALSE, speed_ms |-> NoSpeed, error_msg |-> e] :
               e \in ProbeErrors}

Queued(i) == probes[i].state = "queued"
RunningProbes == {i \in 1..Len(probes) : probes[i].state = "running"}
AllDone == \A i \in 1..Len(probes) : probes[i].state = "done"

\* futures = [loop.run_in_executor(executor, test_mirror_speed, mirror) ...]
Submit ==
    /\ pc = "test_mirrors_parallel"
    /\ probes' = [i \in 1..Len(mirrors) |->
                     [state |-> "queued", result |-> << >>]]
    /\ pc' = "gather"
    /\ UNCHANGED <<entry, fastest, other, exc, coreVars, mirrors, max_workers, results,
                   sorted_mirrors, mirror_cache, cache_timestamp, clock,
                   current_time, cached_calls>>

\* A free worker of the pool takes the oldest queued call
ProbeStart ==
    /\ pc = "gather"
    /\ Cardinality(RunningProbes) < max_workers
    /\ \E i \in 1..Len(probes) :
          /\ Queued(i)
          /\ \A j \in 1..(i - 1) : ~Queued(j)
          /\ probes' = [probes EXCEPT ![i].state = "running"]
    /\ UNCHANGED <<entry, fastest, other, pc, exc, coreVars, mirrors, max_workers, results,
                   sorted_mirrors, mirror_cache, cache_timestamp, clock,
                   current_time, cached_calls>>

\* One test_mirror_speed call returns, whatever the other calls are doing
ProbeFinish ==
    /\ pc = "gather"
    /\ \E i \in RunningProbes, o \in ProbeOutcomes :
          probes' = [probes EXCEPT
                        ![i] = [state |-> "done",
                                result |-> <<test_mirror_speed(mirrors[i], o)>>]]
    /\ UNCHANGED <<entry, fastest, other, pc, exc, coreVars, mirrors, max_workers, results,
                   sorted_mirrors, mirror_cache, cache_timestamp, clock,
                   current_time, cached_calls>>

\* asyncio.gather(*futures): the results in the order of the futures
GatherDropsFailures(ps) ==
    SelectSeq([i \in 1..Len(ps) |-> ps[i].result[1]],
              LAMBDA r : r.speed_ms # NoSpeed)

gather(ps) == [i \in 1..Len(ps) |-> ps[i].result[1]]

\* results = await asyncio.gather(*futures); return results
Gather ==
    /\ pc = "gather"
    /\ AllDone
    /\ results' = Some(gather(probes))
    /\ pc' = IF entry = "test_mirrors_parallel" THEN "Returned"
             ELSE "sort_mirrors_by_speed"
    /\ UNCHANGED <<entry, fastest, other, exc, coreVars, mirrors, max_workers, probes,
                   sorted_mirrors, mirror_cache, cache_timestamp, clock,
                   current_time, cached_calls>>

Call(swept, e, value) ==
    [at |-> current_time, swept |-> swept, exc |-> e, value |-> value]

\* sort_mirrors_by_speed(results), called directly or by get_tested_mirrors
\* for get_cached_mirrors, which stores what it returns:
\*   _mirror_cache = await get_tested_mirrors()
\*   _cache_timestamp = current_time
SortMirrors ==
    /\ pc = "sort_mirrors_by_speed"
    /\ LET r == sort_mirrors_by_speed(results[1]) IN
       /\ exc' = r.exc
       /\ sorted_mirrors' = IF r.exc = NoExc THEN Some(r.value) ELSE NoList
       /\ IF entry \in {"sort_mirrors_by_speed", "get_fastest_mirror"}
          THEN /\ pc' = IF r.exc # NoExc THEN "Raised"
                        ELSE IF entry = "get_fastest_mirror"
                        THEN "get_fastest_mirror"
                        ELSE "Returned"
               /\ UNCHANGED <<mirror_cache, cache_timestamp, cached_calls>>
          ELSE /\ pc' = "Idle"
               /\ IF r.exc = NoExc
                  THEN /\ mirror_cache' = Some(r.value)
                       /\ cache_timestamp' = current_time
                       /\ cached_calls' = Append(cached_calls,
                                      Call(TRUE, NoExc, Some(r.value)))
                  ELSE /\ cached_calls' = Append(cached_calls,
                                             Call(TRUE, r.exc, NoList))
                       /\ UNCHANGED <<mirror_cache, cache_timestamp>>
    /\ UNCHANGED <<entry, fastest, other, coreVars, mirrors, max_workers, probes, results,
                   clock, current_time>>

\* if _mirror_cache and (current_time - _cache_timestamp) < cache_duration
CacheValid(now) ==
    /\ mirror_cache # NoList
    /\ mirror_cache[1] # << >>
    /\ now - cache_timestamp < cache_duration

\* A get_cached_mirrors that writes _cache_timestamp before it awaits the
\* sweep
GetCachedStampFirst ==
    /\ pc = "get_cached_mirrors"
    /\ current_time' = clock
    /\ IF CacheValid(clock)
       THEN /\ pc' = "Idle"
            /\ cached_calls' = Append(cached_calls,
                      [at |-> clock, swept |-> FALSE, exc |-> NoExc,
                       value |-> mirror_cache])
            /\ UNCHANGED <<mirrors, max_workers, cache_timestamp>>
       ELSE /\ pc' = "test_mirrors_parallel"
            /\ mirrors' = WORLDWIDE_MIRRORS
            /\ max_workers' = MAX_PARALLEL_MIRRORS
            /\ cache_timestamp' = clock
            /\ UNCHANGED cached_calls
    /\ UNCHANGED <<entry, fastest, other, exc, coreVars, probes, results,
                   sorted_mirrors, mirror_cache, clock>>

\* get_cached_mirrors up to the return of the cached list or to the sweep
\* of get_tested_mirrors over the catalogue
GetCached ==
    /\ pc = "get_cached_mirrors"
    /\ current_time' = clock
    /\ IF CacheValid(clock)
       THEN /\ pc' = "Idle"
            /\ cached_calls' = Append(cached_calls,
                      [at |-> clock, swept |-> FALSE, exc |-> NoExc,
                       value |-> mirror_cache])
            /\ UNCHANGED <<mirrors, max_workers>>
       ELSE /\ pc' = "test_mirrors_parallel"
            /\ mirrors' = WORLDWIDE_MIRRORS
            /\ max_workers' = MAX_PARALLEL_MIRRORS
            /\ UNCHANGED cached_calls
    /\ UNCHANGED <<entry, fastest, other, exc, coreVars, probes, results, sorted_mirrors,
                   mirror_cache, cache_timestamp, clock>>

MaxCalls == 2
MaxMirrors == 3

\* Seconds between the starts of two consecutive get_cached_mirrors calls
Gaps == {1, cache_duration - 1, cache_duration}

\* The caller calls get_cached_mirrors again after the previous call ended
CallAgain ==
    /\ entry = "get_cached_mirrors"
    /\ pc = "Idle"
    /\ Len(cached_calls) < MaxCalls
    /\ \E gap \in Gaps : clock' = clock + gap
    /\ pc' = "get_cached_mirrors"
    /\ probes' = << >>
    /\ results' = NoList
    /\ sorted_mirrors' = NoList
    /\ exc' = NoExc
    /\ UNCHANGED <<entry, fastest, other, coreVars, mirrors, max_workers, mirror_cache,
                   cache_timestamp, current_time, cached_calls>>

\* The locals of the get_cached_mirrors task that is running
Frame ==
    [pc |-> pc, exc |-> exc, mirrors |-> mirrors, max_workers |-> max_workers,
     probes |-> probes, results |-> results,
     sorted_mirrors |-> sorted_mirrors, current_time |-> current_time]

\* A task can be resumed before its first step and while it awaits gather;
\* between two awaits its code runs without yielding to the event loop
Resumable == {"get_cached_mirrors", "gather"}

NoTask ==
    [pc |-> "none", exc |-> NoExc, mirrors |-> << >>,
     max_workers |-> MAX_PARALLEL_MIRRORS, probes |-> << >>,
     results |-> NoList, sorted_mirrors |-> NoList, current_time |-> 0]

NewTask == [NoTask EXCEPT !.pc = "get_cached_mirrors"]

\* Seconds by which the second task can start after the first one
MaxLag == 1

\* The event loop runs the other get_cached_mirrors task: the running one
\* awaits gather, has not started or has returned. Time passes while a task
\* awaits its sweep: a task that has not started yet may start later than
\* the one that is awaiting
Switch ==
    /\ entry = "concurrent get_cached_mirrors"
    /\ pc \in Resumable \cup {"Idle"}
    /\ other.pc \in Resumable
    /\ IF pc = "gather" /\ other.pc = "get_cached_mirrors"
       THEN \E lag \in 0..MaxLag :
               /\ clock + lag <= current_time + MaxLag
               /\ clock' = clock + lag
       ELSE clock' = clock
    /\ pc' = other.pc
    /\ exc' = other.exc
    /\ mirrors' = other.mirrors
    /\ max_workers' = other.max_workers
    /\ probes' = other.probes
    /\ results' = other.results
    /\ sorted_mirrors' = other.sorted_mirrors
    /\ current_time' = other.current_time
    /\ other' = Frame
    /\ UNCHANGED <<entry, fastest, coreVars, mirror_cache, cache_timestamp,
                   cached_calls>>

\* get_fastest_mirror(mirrors): the first entry whose status is "working"
GetLastWorking(ms) ==
    LET working == SelectSeq(ms, IsWorking)
    IN  IF working = << >> THEN NoList
        ELSE Some([display_name |-> working[Len(working)].display_name,
                   url |-> working[Len(working)].url])

get_fastest_mirror(ms) ==
    IF \A i \in 1..Len(ms) : ~IsWorking(ms[i]) THEN NoList
    ELSE LET i == CHOOSE k \in 1..Len(ms) :
                      IsWorking(ms[k]) /\ \A j \in 1..(k - 1) : ~IsWorking(ms[j])
         IN  Some([display_name |-> ms[i].display_name, url |-> ms[i].url])

\* get_fastest_mirror(sort_mirrors_by_speed(results)), the second call
GetFastest ==
    /\ pc = "get_fastest_mirror"
    /\ fastest' = get_fastest_mirror(sorted_mirrors[1])
    /\ pc' = "Returned"
    /\ UNCHANGED <<entry, exc, coreVars, mirrors, max_workers, probes,
                   results, sorted_mirrors, mirror_cache, cache_timestamp,
                   clock, current_time, cached_calls, other>>

\* No mirror function has been called
\* No directory was looked at: discover_profiles is not part of the call
NoDirectory == [kind |-> "missing", entries |-> << >>]

ProfilesIdle ==
    /\ profiles_dir = NoDirectory
    /\ discovered = << >>

MirrorIdle ==
    /\ mirrors = << >>
    /\ max_workers = MAX_PARALLEL_MIRRORS
    /\ probes = << >>
    /\ results = NoList
    /\ sorted_mirrors = NoList
    /\ mirror_cache = NoList
    /\ cache_timestamp = 0
    /\ clock = 0
    /\ current_time = 0
    /\ cached_calls = << >>
    /\ other = NoTask
    /\ fastest = NoList

-----------------------------------------------------------------------------
(* The calls of the core *)

\* No operation of the core has run
CoreFresh ==
    /\ ip = 1
    /\ stages = << >>
    /\ completed = {}
    /\ events = << >>
    /\ trace = << >>
    /\ failed = {}
    /\ sync = "none"
    /\ result = "none"
    /\ ret = [status |-> "none", swap_info |-> << >>]
    /\ cleanups = 0

Init ==
    /\ CoreFresh
    /\ MirrorIdle
    /\ ProfilesIdle
    /\ exc = NoExc
    /\ (InitRun \/ InitAutoPartition \/ InitStage)

Next ==
    \/ Start
    \/ ValidateConfig
    \/ PrepareDisk
    \/ InstallBase
    \/ ConfigureSystem
    \/ InstallProfiles
    \/ Finalize
    \/ SyncExit
    \/ Except
    \/ Cleanup
    \/ Reraise
    \/ AutoPartitionValidate
    \/ AutoPartitionStep
    \/ CleanupBoot
    \/ CleanupRoot
    \/ RaiseDiskError

Spec == Init /\ [][Next]_vars

-----------------------------------------------------------------------------
(* The calls of the mirror functions *)

RECURSIVE SeqsUpTo(_, _)
SeqsUpTo(S, n) ==
    IF n = 0 THEN {<< >>}
    ELSE LET shorter == SeqsUpTo(S, n - 1)
         IN  shorter \cup {Append(q, x) : q \in shorter, x \in S}

Catalogue == {WORLDWIDE_MIRRORS[i] : i \in 1..Len(WORLDWIDE_MIRRORS)}

\* The lists of 0..MaxMirrors mirrors that go through the catalogue in order
MirrorLists ==
    {[i \in 1..n |->
         WORLDWIDE_MIRRORS[((i - 1) % Len(WORLDWIDE_MIRRORS)) + 1]] :
       n \in 0..MaxMirrors}
WorkerCaps == {1, 2, MAX_PARALLEL_MIRRORS}
SweepResults ==
    SeqsUpTo({test_mirror_speed(m, o) : m \in Catalogue, o \in ProbeOutcomes},
             MaxMirrors)

\* The list an earlier sweep left in the cache
PriorSweep ==
    sort_mirrors_by_speed(
        <<test_mirror_speed(WORLDWIDE_MIRRORS[1],
              [ok |-> FALSE, speed_ms |-> NoSpeed,
               error_msg |-> <<"timed out">>]),
          test_mirror_speed(WORLDWIDE_MIRRORS[2],
              [ok |-> TRUE, speed_ms |-> 12, error_msg |-> PyNone]),
          test_mirror_speed(WORLDWIDE_MIRRORS[3],
              [ok |-> TRUE, speed_ms |-> 9, error_msg |-> PyNone])>>).value

\* The module was imported and no sweep has run
ColdCache ==
    /\ mirror_cache = NoList
    /\ cache_timestamp = 0
    /\ clock = 0
    /\ cached_calls = << >>

\* A get_cached_mirrors call made at time 0 filled the cache
WarmCache ==
    /\ mirror_cache = Some(PriorSweep)
    /\ cache_timestamp = 0
    /\ clock \in {cache_duration - 1, cache_duration}
    /\ cached_calls = <<[at |-> 0, swept |-> TRUE, exc |-> NoExc,
                         value |-> Some(PriorSweep)]>>

MirrorInit ==
    /\ CoreFresh
    /\ ProfilesIdle
    /\ config = NoKey
    /\ device = Device25(FALSE)
    /\ target = {}
    /\ Mounts(FreshTarget)
    /\ exc = NoExc
    /\ probes = << >>
    /\ sorted_mirrors = NoList
    /\ current_time = 0
    /\ fastest = NoList
    /\ \/ /\ entry = "test_mirrors_parallel"
          /\ pc = "test_mirrors_parallel"
          /\ mirrors \in MirrorLists
          /\ max_workers \in WorkerCaps
          /\ results = NoList
          /\ ColdCache
          /\ other = NoTask
       \/ /\ entry = "sort_mirrors_by_speed"
          /\ pc = "sort_mirrors_by_speed"
          /\ mirrors = << >>
          /\ max_workers = MAX_PARALLEL_MIRRORS
          /\ \E rs \in SweepResults : results = Some(rs)
          /\ ColdCache
          /\ other = NoTask
       \/ /\ entry = "get_fastest_mirror"
          /\ pc = "sort_mirrors_by_speed"
          /\ mirrors = << >>
          /\ max_workers = MAX_PARALLEL_MIRRORS
          /\ \E rs \in SweepResults : results = Some(rs)
          /\ ColdCache
          /\ other = NoTask
       \/ /\ entry = "get_cached_mirrors"
          /\ pc = "get_cached_mirrors"
          /\ mirrors = << >>
          /\ max_workers = MAX_PARALLEL_MIRRORS
          /\ results = NoList
          /\ ColdCache
          /\ other = NoTask
       \/ /\ entry = "concurrent get_cached_mirrors"
          /\ pc = "get_cached_mirrors"
          /\ mirrors = << >>
          /\ max_workers = MAX_PARALLEL_MIRRORS
          /\ results = NoList
          /\ (ColdCache \/ WarmCache)
          /\ other = NewTask

MirrorNext ==
    \/ Submit
    \/ ProbeStart
    \/ ProbeFinish
    \/ Gather
    \/ SortMirrors
    \/ GetCached
    \/ CallAgain
    \/ Switch
    \/ GetFastest

MirrorSpec == MirrorInit /\ [][MirrorNext]_vars

\* The threads of the pool and the event loop keep running: a submitted
\* call is started when a worker is free, a started call returns (urlopen
\* has a timeout), and gather resumes once every future is done
MirrorFairSpec ==
    /\ MirrorSpec
    /\ WF_vars(Submit)
    /\ WF_vars(ProbeStart)
    /\ WF_vars(ProbeFinish)
    /\ WF_vars(Gather)

-----------------------------------------------------------------------------
(* core/profiles.py: discover_profiles *)

\* install_script.stat().st_mode & 0o111
Executable(mode) ==
    \/ (mode \div 64) % 2 = 1
    \/ (mode \div 8) % 2 = 1
    \/ mode % 2 = 1

\* lines 72-77: the lines of the package list that, stripped, are neither
\* empty nor a comment
PackageCount(lines) ==
    Cardinality({i \in 1..Len(lines) :
                    LET line == strip(lines[i])
                    IN  line # << >> /\ line[1] # "#"})

\* _validate_profile, lines 45-97, for the bundle b when install_script.chmod
\* ends `chmod`: what it returns (NoList for None) and the bundle it leaves on disk. The
\* description and the icon of lines 83-86 are left out
validate_profile(b, chmod) ==
    IF ~b.script.exists \/ ~b.list.exists THEN [info |-> NoList, bundle |-> b]
    ELSE IF ~Executable(b.script.mode) /\ chmod # "ok"
    THEN [info |-> NoList, bundle |-> b]
    ELSE LET after == IF Executable(b.script.mode) THEN b
                      ELSE [b EXCEPT !.script.mode = 493]
             package_count == IF b.list.readable
                              THEN PackageCount(b.list.lines) ELSE 0
         IN  [info |-> Some([name |-> b.name,
                              package_count |-> package_count]),
              bundle |-> after]

\* lines 30-34: the directory is missing, or self.profiles_dir.iterdir()
\* starts the loop; iterdir raises when the path is not a directory
Discover ==
    /\ pc = "discover_profiles"
    /\ discovered' = << >>
    /\ ip' = 1
    /\ IF profiles_dir.kind = "missing"
       THEN pc' = "Returned" /\ exc' = exc
       ELSE IF profiles_dir.kind = "file"
       THEN pc' = "Raised" /\ exc' = Exc("NotADirectoryError", <<"profiles">>)
       ELSE pc' = "iterdir" /\ exc' = exc
    /\ UNCHANGED <<mirrorVars, entry, config, device, target, stages,
                   completed, events, trace, failed, sync, mntExists,
                   rootMounted, bootMounted, result, ret, cleanups,
                   profiles_dir>>

\* lines 36-40: one round of the loop
ValidateProfile ==
    /\ pc = "iterdir"
    /\ ip <= Len(profiles_dir.entries)
    /\ LET b == profiles_dir.entries[ip]
       IN  IF ~b.is_dir
           THEN UNCHANGED <<profiles_dir, discovered>>
           ELSE \E chmod \in (IF b.writable THEN {"ok"} ELSE {"oserror"}) :
                  LET r == validate_profile(b, chmod)
                  IN  /\ profiles_dir' =
                            [profiles_dir EXCEPT !.entries[ip] = r.bundle]
                      /\ discovered' = IF r.info = NoList THEN discovered
                                       ELSE Append(discovered, r.info[1])
    /\ ip' = ip + 1
    /\ UNCHANGED <<mirrorVars, entry, pc, exc, config, device, target, stages,
                   completed, events, trace, failed, sync, mntExists,
                   rootMounted, bootMounted, result, ret, cleanups>>

\* lines 42-43
DiscoverReturn ==
    /\ pc = "iterdir"
    /\ ip > Len(profiles_dir.entries)
    /\ pc' = "Returned"
    /\ UNCHANGED <<mirrorVars, profileVars, entry, exc, config, device,
                   target, ip, stages, completed, events, trace, failed, sync,
                   mntExists, rootMounted, bootMounted, result, ret, cleanups>>

MaxBundles == 2

\* Package lists: none, one that cannot be read, an empty file, comments and
\* blank lines only, and lists with packages
PackageLists ==
    { [exists |-> FALSE, readable |-> FALSE, lines |-> << >>],
      [exists |-> TRUE, readable |-> FALSE, lines |-> << >>],
      [exists |-> TRUE, readable |-> TRUE, lines |-> << >>],
      [exists |-> TRUE, readable |-> TRUE,
       lines |-> << <<"#", "g", "u", "i">>, <<" ">> >>],
      [exists |-> TRUE, readable |-> TRUE, lines |-> << <<"v", "i", "m">> >>],
      [exists |-> TRUE, readable |-> TRUE,
       lines |-> << <<" ", "g", "i", "t", " ">>, <<" ", "#">>,
                    <<"v", "i", "m">> >>] }

\* install.sh: missing, without execute bits (0o644), executable (0o755
\* and 0o744)
Scripts ==
    { [exists |-> FALSE, mode |-> 0], [exists |-> TRUE, mode |-> 420],
      [exists |-> TRUE, mode |-> 493], [exists |-> TRUE, mode |-> 484] }

\* What profiles_dir.iterdir() can yield: a stray file or a bundle
\* directory; the directory sits on a read-only medium or not, which matters
\* for the script without execute bits alone
Bundles ==
    { [is_dir |-> FALSE, writable |-> TRUE,
       script |-> [exists |-> FALSE, mode |-> 0],
       list |-> [exists |-> FALSE, readable |-> FALSE, lines |-> << >>]] }
    \cup { b \in [is_dir : {TRUE}, writable : BOOLEAN, script : Scripts,
                  list : PackageLists] :
              ~b.writable => b.script.exists /\ b.script.mode = 420 }

BundleNames == <<"Hyprland", "Gaming", "Hacking", "Development">>

\* The entry b under the name n
Named(b, n) ==
    [name |-> n, is_dir |-> b.is_dir, writable |-> b.writable,
     script |-> b.script, list |-> b.list]

\* PROFILES_DIR is missing, a file, or a directory of 0..MaxBundles entries,
\* in the order iterdir yields them
DiscoverInit ==
    /\ CoreFresh
    /\ MirrorIdle
    /\ config = NoKey
    /\ device = Device25(FALSE)
    /\ target = {}
    /\ Mounts(FreshTarget)
    /\ exc = NoExc
    /\ entry = "discover_profiles"
    /\ pc = "discover_profiles"
    /\ discovered = << >>
    /\ \/ profiles_dir = [kind |-> "missing", entries |-> << >>]
       \/ profiles_dir = [kind |-> "file", entries |-> << >>]
       \/ \E n \in 0..MaxBundles : \E e \in [1..n -> Bundles] :
             profiles_dir =
                [kind |-> "dir",
                 entries |-> [i \in 1..n |-> Named(e[i], BundleNames[i])]]

DiscoverNext ==
    \/ Discover
    \/ ValidateProfile
    \/ DiscoverReturn

DiscoverSpec == DiscoverInit /\ [][DiscoverNext]_vars

-----------------------------------------------------------------------------
(* Properties of run_full_installation *)

Run == entry = "run_full_installation"

\* Positions of the except clause of run_full_installation and after it
FailurePath == {"Except", "Cleanup", "Reraise", "Failed"}

RunPositions == {"Start", "Done"} \cup FailurePath
                \cup {Pipeline[i] : i \in 1..Len(Pipeline)}

Started == {stages[i] : i \in 1..Len(stages)}

Negative == {i \in 1..Len(events) : events[i].pct < 0}

\* C1: in a run of run_full_installation the stages start in the order
\* ValidateConfig, PrepareDisk, InstallBase, ConfigureSystem,
\* InstallProfiles, Finalize, each at most once and each only after the
\* stage before it returned without raising; the run reaches Done only
\* after all six returned, and a run that can take no further step is at
\* Done or at Failed.
C1_StageOrder ==
    Run =>
        /\ pc \in RunPositions
        /\ Len(stages) <= Len(Pipeline)
        /\ \A i \in 1..Len(stages) : stages[i] = Pipeline[i]
        /\ \A i \in 2..Len(stages) : stages[i - 1] \in completed
        /\ completed \subseteq Started
        /\ pc = "Done" => completed = {Pipeline[i] : i \in 1..Len(Pipeline)}
        /\ pc \in {"Done", "Failed"} \/ ENABLED Next

\* PrepareDisk started after ValidateConfig returned, and the run ended Failed
C1_Witness ==
    /\ Run
    /\ stages = <<"ValidateConfig", "PrepareDisk">>
    /\ "ValidateConfig" \in completed
    /\ pc = "Failed"

\* C2: once a stage of a run raised, no further stage starts (the stage
\* that raised stays the last one started); the sink receives exactly one
\* event with a negative percentage, whose message contains the text of
\* the exception; _cleanup_on_failure is called once, after that event and
\* before InstallationError reaches the caller; and the run does not
\* return True.
C2_FailureProtocol ==
    Run =>
        /\ pc \notin FailurePath \ {"Except"} => Negative = {}
        /\ pc \in FailurePath =>
              /\ stages # << >>
              /\ stages[Len(stages)] \notin completed
              /\ result # "True"
        /\ pc \in {"Cleanup", "Reraise", "Failed"} =>
              /\ Negative = {Len(events)}
              /\ Contains(events[Len(events)].msg,
                          IF pc = "Failed" THEN Tail(exc.msg) ELSE exc.msg)
              /\ Tail(events[Len(events)].msg) # << >>
        /\ cleanups = (IF pc \in {"Reraise", "Failed"} THEN 1 ELSE 0)
        /\ result = "raised" =>
              pc = "Failed" /\ exc.type = "InstallationError"
        /\ pc = "Failed" => result = "raised"

\* ValidateConfig raised and InstallationError reached the caller
C2_Witness ==
    /\ Run
    /\ stages = <<"ValidateConfig">>
    /\ result = "raised"
    /\ cleanups = 1
    /\ Negative # {}

\* The configuration and machine of the end-to-end scenario: every required
\* field set, an unmounted 25 GB device, 4 GB of RAM, swap "auto", no
\* profiles
C3_Scenario ==
    /\ Run
    /\ config = Dict([disk |-> <<"/dev/sda">>, hostname |-> <<"g", "x">>,
                      username |-> <<"gamer">>, password |-> <<"validpass1">>,
                      locale |-> <<"en_US.UTF-8">>, timezone |-> <<"UTC">>,
                      kernel |-> <<"linux">>, swap_size |-> AUTO,
                      profiles |-> << >>])
    /\ device = Device25(FALSE)

AllSucceeded == \A i \in 1..Len(trace) : trace[i].how = "ok"

\* C3: in the end-to-end scenario, with every external tool succeeding,
\* the run does not enter its failure path and delivers no event with a
\* negative percentage, and at Done it has returned True with a last event
\* of percentage 100.
C3_EndToEnd ==
    C3_Scenario /\ AllSucceeded =>
        /\ pc \notin FailurePath
        /\ Negative = {}
        /\ pc = "Done" =>
              result = "True" /\ events[Len(events)].pct = 100

Destructive(e) == e.name \in {"wipefs", "sgdisk", "mkfs.fat", "mkfs"}

NoDestructiveCommand == \A i \in 1..Len(trace) : ~Destructive(trace[i])

C5_UnmountedAfterFailure ==
    Run /\ pc = "Failed" /\ "umount" \notin failed =>
        ~rootMounted /\ ~bootMounted

\* The entries of install_profile in the trace, in order
ProfileCalls ==
    SelectSeq(trace,
              LAMBDA e : e.op = "call" /\ e.name = "install_profile")

\* C6: _install_profiles calls install_profile for the listed profiles in
\* list order, one call each; no failure inside install_profile makes the
\* stage raise; when the stage returns, every listed profile has been
\* attempted; and the statement after the stage is Finalize.
C6_ProfileLoop ==
    entry = "_install_profiles" =>
        LET profiles == Get(config, "profiles", << >>)
        IN  /\ Len(ProfileCalls) <= Len(profiles)
            /\ \A i \in 1..Len(ProfileCalls) :
                  ProfileCalls[i].arg = profiles[i]
            /\ pc # "Raised" /\ result # "raised"
            /\ pc = "Returned" =>
                  /\ Len(ProfileCalls) = Len(profiles)
                  /\ "InstallProfiles" \in completed
            /\ Pipeline[StageIndex("InstallProfiles") + 1] = "Finalize"

\* The stage returned after a profile failed and a later one was attempted
C6_Witness ==
    /\ entry = "_install_profiles"
    /\ pc = "Returned"
    /\ Len(ProfileCalls) = MaxProfiles
    /\ \E i, j \in 1..Len(trace) :
          /\ i < j
          /\ trace[i].scope = "install_profile" /\ trace[i].how # "ok"
          /\ trace[j].op = "call" /\ trace[j].name = "install_profile"

\* C7: the percentages delivered to the sink during one call never
\* decrease, apart from one negative percentage.
C7_Monotonic ==
    /\ Cardinality(Negative) <= 1
    /\ \A i, j \in 1..Len(events) :
          i < j /\ events[i].pct >= 0 /\ events[j].pct >= 0 =>
              events[i].pct <= events[j].pct

-----------------------------------------------------------------------------
(* Properties of auto_partition *)

Partitioning == entry = "auto_partition"

\* Positions of the trace where a command of auto_partition or of
\* _create_swap_file failed; the umount commands of _unmount_disk run with
\* check=False and are none of them
CommandFailures ==
    {i \in 1..Len(trace) :
        /\ trace[i].op = "run"
        /\ trace[i].scope \in {"auto_partition", "_create_swap_file"}
        /\ trace[i].how # "ok"}

\* mount of `what` succeeded before position i of the trace
MountedBefore(what, i) ==
    \E j \in 1..(i - 1) :
        trace[j].name = "mount" /\ trace[j].arg = what /\ trace[j].how = "ok"

\* Positions after i where _cleanup_mounts ran umount on `what`
UnmountsAfter(what, i) ==
    {k \in (i + 1)..Len(trace) :
        /\ trace[k].scope = "_cleanup_mounts"
        /\ trace[k].name = "umount" /\ trace[k].arg = what}

\* C8: when auto_partition has ended and one of its commands had failed
\* after root or boot was mounted, DiskError was raised, every mount made
\* before the failure got an umount attempt after it, and the attempt on
\* boot came before the attempt on root.
C8_UnmountOrder ==
    Partitioning /\ pc \in {"Returned", "Raised"} =>
        \A i \in CommandFailures :
            MountedBefore("root", i) =>
                /\ result = "raised" /\ exc.type = "DiskError"
                /\ UnmountsAfter("root", i) # {}
                /\ MountedBefore("boot", i) => UnmountsAfter("boot", i) # {}
                /\ \A b \in UnmountsAfter("boot", i),
                      r \in UnmountsAfter("root", i) : b < r

\* C9: auto_partition returns a result with status success only if none of
\* its commands failed, those of the swap file included; once a command
\* has failed the call ends with DiskError, with boot and root unmounted
\* when the umount commands succeed.
C9_SuccessMeansAllSucceeded ==
    Partitioning =>
        /\ ret.status = "success" => CommandFailures = {}
        /\ pc \in {"Returned", "Raised"} /\ CommandFailures # {} =>
              /\ result = "raised" /\ exc.type = "DiskError"
              /\ "umount" \notin failed => ~rootMounted /\ ~bootMounted

\* Every required field is present and passes its validator: the hostname
\* validate_hostname, the kernel membership in KERNELS
FieldsValid(cfg) ==
    /\ validate_config(cfg)
    /\ validate_hostname(cfg["hostname"])
    /\ cfg["kernel"] \in KERNELS

\* C10: a run performs no disk, bootstrap or chroot operation unless every
\* required field of its configuration is present and valid, and a run
\* whose configuration has a missing, empty or invalid required field
\* fails in ValidateConfig.
C10_ValidatedFirst ==
    Run =>
        /\ trace # << >> => FieldsValid(config)
        /\ pc = "Failed" /\ ~FieldsValid(config) =>
              stages = <<"ValidateConfig">>

-----------------------------------------------------------------------------
(* Properties of the error messages *)

\* The text by which the error of a fatal stage names the stage
StageTag(s) ==
    CASE s = "ValidateConfig" -> "Invalid configuration"
      [] s = "PrepareDisk" -> "Disk preparation failed"
      [] OTHER -> StagePrefix(s)

FatalStages ==
    {"ValidateConfig", "PrepareDisk", "InstallBase", "ConfigureSystem",
     "Finalize"}

\* The stage tags that occur in the message msg
TagsIn(msg) ==
    {t \in {StageTag(s) : s \in FatalStages \cup {"InstallProfiles"}} :
        Contains(msg, <<t>>)}

\* C11: when ValidateConfig, PrepareDisk, InstallBase, ConfigureSystem or
\* Finalize has raised, the exception in flight, and the InstallationError
\* the caller receives, carries the tag of that stage and of no other
\* stage, whatever way the failing operation ended (exit status, timeout,
\* OSError).
C11_StageTagged ==
    /\ Run /\ pc \in FailurePath =>
          /\ stages[Len(stages)] \in FatalStages
          /\ TagsIn(exc.msg) = {StageTag(stages[Len(stages)])}
          /\ exc.type = "InstallationError"
    /\ ~Run /\ ~Partitioning /\ pc = "Raised" =>
          /\ stages[Len(stages)] \in FatalStages
          /\ TagsIn(exc.msg) = {StageTag(stages[Len(stages)])}
          /\ exc.type = "InstallationError"

\* _finalize_installation raised because sync could not be started
C11_Witness ==
    /\ entry = "_finalize_installation"
    /\ pc = "Raised"
    /\ "sync" \in failed
    /\ Contains(exc.msg, <<"Installation finalization failed">>)

CleanupFailed == "_cleanup_on_failure" \in failed

\* C12: when _cleanup_on_failure failed during a run, the exception in
\* flight after it is still the stage's, and the InstallationError the
\* caller receives has the message of the failure event emitted before the
\* cleanup: the failing stage's tag and text, and nothing of the cleanup's
\* own exception.
C12_CleanupDoesNotMask ==
    Run /\ CleanupFailed =>
        /\ pc \in {"Reraise", "Failed"}
        /\ exc.msg = (IF pc = "Failed" THEN events[Len(events)].msg
                      ELSE Tail(events[Len(events)].msg))
        /\ TagsIn(exc.msg) = {StageTag(stages[Len(stages)])}
        /\ ~Contains(exc.msg, <<"unmount_all_from_mount_point">>)
        /\ pc = "Failed" => exc.type = "InstallationError"

\* PrepareDisk raised, the cleanup failed, and the error reached the caller
C12_Witness ==
    /\ Run
    /\ CleanupFailed
    /\ pc = "Failed"
    /\ stages[Len(stages)] = "PrepareDisk"
    /\ Contains(exc.msg, <<"Disk preparation failed">>)

-----------------------------------------------------------------------------
(* Properties of _install_profiles *)

Helpers == {"install_yay_and_aur_packages", "install_hyde_theme"}

\* Positions of the trace where a command of the yay bootstrap or of the
\* HyDE step failed
HelperFailures ==
    {i \in 1..Len(trace) :
        trace[i].scope \in Helpers /\ trace[i].how # "ok"}

Entered(method) ==
    \E i \in 1..Len(trace) : trace[i].op = "call" /\ trace[i].name = method

\* C13: after a command of the yay bootstrap or of the HyDE step failed,
\* _install_profiles does not raise; when it returns, install_profile has
\* been called for every listed profile in order, the HyDE step has been
\* entered if Hyprland is listed, the stage counts as completed, and the
\* statement after it is Finalize.
C13_HelpersNotFatal ==
    entry = "_install_profiles" /\ HelperFailures # {} =>
        LET profiles == Get(config, "profiles", << >>)
        IN  /\ pc \in {"InstallProfiles", "Returned"}
            /\ exc = NoExc
            /\ pc = "Returned" =>
                  /\ [i \in 1..Len(ProfileCalls) |-> ProfileCalls[i].arg]
                        = profiles
                  /\ (\E i \in 1..Len(profiles) : profiles[i] = "Hyprland")
                        => Entered("install_hyde_theme")
                  /\ "InstallProfiles" \in completed
                  /\ AfterReturn("InstallProfiles") = "Returned"
            /\ Pipeline[StageIndex("InstallProfiles") + 1] = "Finalize"

\* The stage returned although both the yay bootstrap and the HyDE step
\* failed, with profiles attempted in between
C13_Witness ==
    /\ entry = "_install_profiles"
    /\ pc = "Returned"
    /\ \E i, j \in HelperFailures :
          /\ trace[i].scope = "install_yay_and_aur_packages"
          /\ trace[j].scope = "install_hyde_theme"
    /\ Len(ProfileCalls) >= 2

\* C14: when the configuration has no profiles key or an empty profile
\* list, _install_profiles runs no command and enters no method of the
\* profile manager (no yay bootstrap, no install_profile, no HyDE step),
\* no operation fails, nothing is raised, and the stage returns after the
\* single event "Skipping profile installation" at 70, so that the next
\* statement of the run is Finalize.
C14_EmptyProfiles ==
    entry = "_install_profiles"
    /\ ~Truthy(Get(config, "profiles", << >>)) =>
        /\ trace = << >>
        /\ failed = {}
        /\ exc = NoExc
        /\ pc \in {"InstallProfiles", "Returned"}
        /\ pc = "Returned" =>
              /\ events = <<Event(<<"Skipping profile installation">>, 70)>>
              /\ completed = {"InstallProfiles"}
              /\ result = "returned"
        /\ Pipeline[StageIndex("InstallProfiles") + 1] = "Finalize"

\* The stage returned for a configuration without a profiles key
C14_Witness ==
    /\ entry = "_install_profiles"
    /\ "profiles" \notin DOMAIN config
    /\ pc = "Returned"
    /\ Len(events) = 1

-----------------------------------------------------------------------------
(* Properties of validate_disk_for_installation *)

\* auto_partition has called validate_disk_for_installation
Validated ==
    /\ Partitioning
    /\ config["filesystem"] \in FILESYSTEMS
    /\ pc # "auto_partition"

Resolved == SwapGB(config["swap_size"], device.ram)

Required == 10 + 1 + Resolved.gb + 5

\* The message of the DiskError raised for a validation failure
ValidationError(reason) ==
    DiskError("raise", <<"Disk validation failed", reason>>).msg

\* The reason of the first failing rule in the order: device queryable,
\* size at least 20 GB, device not mounted, size at least the required space
ReasonInRuleOrder ==
    IF ~device.lsblk_ok THEN "Validation failed"
    ELSE IF device.size_gb < 20 THEN "Disk too small"
    ELSE IF device.is_mounted THEN "Disk is currently mounted and in use"
    ELSE IF device.size_gb < Required THEN "Insufficient space"
    ELSE "Disk suitable"

\* C15: for a swap size that can be parsed, the validation that
\* auto_partition ran reported the first failing rule in the order device
\* queryable, size at least 20 GB, device not mounted, size at least the
\* required space; a device of at least 20 GB that is mounted and too small
\* is rejected with the mounted reason.
C15_RuleOrder ==
    Validated /\ ~Resolved.raised =>
        IF ReasonInRuleOrder = "Disk suitable"
        THEN ~Contains(exc.msg, <<"Disk validation failed">>)
        ELSE exc.msg = ValidationError(ReasonInRuleOrder)

\* The validation auto_partition ran ended as the verdict v says
Reported(v) ==
    IF v.ok THEN ~Contains(exc.msg, <<"Disk validation failed">>)
    ELSE exc.msg = ValidationError(v.reason)

\* C16: for a queryable device and a swap size that can be parsed, with
\* required = 10 + 1 + resolved swap + 5: the validation fails with "Disk
\* too small" when size < 20; fails with "Insufficient space", stating the
\* size, the required space and the swap, when 20 <= size < required; and
\* succeeds when the device is unmounted and size >= max(20, required).
\* auto_partition raises or goes on accordingly.
C16_SizeRules ==
    Validated /\ device.lsblk_ok /\ ~Resolved.raised =>
        LET v == validate_disk_for_installation(device, config["swap_size"])
            size == device.size_gb
        IN  /\ Reported(v)
            /\ size < 20 => v = Verdict(FALSE, "Disk too small", size, 20, 0)
            /\ 20 <= size /\ size < Required =>
                  v = Verdict(FALSE, "Insufficient space", size, Required,
                              Resolved.gb)
            /\ ~device.is_mounted /\ size >= Max(20, Required) =>
                  v = Verdict(TRUE, "Disk suitable", size, Required,
                              Resolved.gb)

\* A 24 GB device was rejected for a 9 GB swap file
C16_Witness ==
    /\ Validated
    /\ device.size_gb = 24
    /\ ~device.is_mounted
    /\ Required = 25
    /\ exc.msg = ValidationError("Insufficient space")

\* The swap size in GB the policy stands for: 0 for "none", N for "NG",
\* floor(N / 1024) raised to 1 when N is not zero for "NM", min(RAM, 8) for
\* "auto", and 2 for "auto" when the RAM size cannot be read
SwapOfPolicy(swap_size, ram) ==
    IF swap_size = NONE THEN 0
    ELSE IF swap_size = AUTO
    THEN IF ram.kind = "ok" THEN Min(RamGB(ram), 8) ELSE 2
    ELSE IF EndsWith(swap_size, "G") THEN IntOf(AllButLast(swap_size))
    ELSE IF IntOf(AllButLast(swap_size)) = 0 THEN 0
    ELSE Max(1, IntOf(AllButLast(swap_size)) \div 1024)

\* The policies "none", "auto", "NG" and "NM"
IsPolicy(swap_size) ==
    \/ swap_size \in {NONE, AUTO}
    \/ /\ EndsWith(swap_size, "G") \/ EndsWith(swap_size, "M")
       /\ IsInt(AllButLast(swap_size))

\* C17: the swap size validate_disk_for_installation used is the one the
\* policy and the RAM reading stand for: 0 for "none", N for "NG",
\* floor(N / 1024) raised to 1 only when N is not zero for "NM",
\* min(RAM_GB, 8) for "auto", and 2 for "auto" when /proc/meminfo is
\* unreadable, has no MemTotal line or has one that cannot be parsed.
C17_SwapResolution ==
    Validated /\ device.lsblk_ok /\ device.size_gb >= 20
    /\ IsPolicy(config["swap_size"]) =>
        Resolved.gb = SwapOfPolicy(config["swap_size"], device.ram)

-----------------------------------------------------------------------------
(* The mirror sweep *)

Sweeping == entry = "test_mirrors_parallel"
Swept == Sweeping /\ pc = "Returned"

\* A result tuple carries a latency and no error, or an error and no latency
LatencyOrError(r) ==
    \/ r.speed_ms \in Nat /\ r.error_msg = PyNone
    \/ r.speed_ms = NoSpeed /\ r.error_msg # PyNone

\* C18: a sweep over K mirrors returns exactly K results, the i-th one the
\* name and url of the i-th input mirror with either a latency or an error,
\* whichever probes fail and in whatever order they complete; a probe that
\* has not finished or has failed never keeps another probe from finishing,
\* and every sweep terminates.
C18_SweepReturnsAll ==
    /\ [](Swept =>
            /\ results # NoList
            /\ Len(results[1]) = Len(mirrors)
            /\ \A i \in 1..Len(mirrors) :
                  /\ results[1][i].name = mirrors[i].name
                  /\ results[1][i].url = mirrors[i].url
                  /\ LatencyOrError(results[1][i]))
    /\ [](Sweeping /\ pc = "gather" =>
            \A i \in RunningProbes : ENABLED
                (ProbeFinish /\ probes'[i].state = "done"))
    /\ (Sweeping ~> Swept)

\* A sweep of three mirrors through one worker returned although the first
\* and the last probe failed
C18_Witness ==
    /\ Swept
    /\ Len(mirrors) = 3
    /\ max_workers = 1
    /\ results[1][1].speed_ms = NoSpeed
    /\ results[1][2].speed_ms # NoSpeed
    /\ results[1][3].speed_ms = NoSpeed

-----------------------------------------------------------------------------
(* Sorting the sweep results *)

Sorting == entry = "sort_mirrors_by_speed"

\* The latency a working mirror's display name shows: the number between
\* its last "(" and the closing "ms)"
LatencyShown(x) ==
    LET t == x.display_name
        open == CHOOSE k \in 1..Len(t) :
                    t[k] = "(" /\ \A j \in (k + 1)..Len(t) : t[j] # "("
    IN  NatOf(SubSeq(t, open + 1, Len(t) - 2))

Count(x, xs) == Cardinality({i \in 1..Len(xs) : xs[i] = x})

\* C19: for any sweep results, sort_mirrors_by_speed returns a list of the
\* same length (the display tuples of the results, rearranged) in which
\* every working mirror precedes every failed mirror and the working
\* mirrors are in ascending order of latency.
C19_SortedBySpeed ==
    Sorting /\ pc \in {"Returned", "Raised"} =>
        /\ pc = "Returned"
        /\ sorted_mirrors # NoList
        /\ LET out == sorted_mirrors[1]
               all == DisplayTuples(results[1])
           IN  /\ Len(out) = Len(results[1])
               /\ \A i \in 1..Len(all) : Count(all[i], out) = Count(all[i], all)
               /\ \A i, j \in 1..Len(out) :
                     IsWorking(out[i]) /\ IsFailed(out[j]) => i < j
               /\ \A i, j \in 1..Len(out) :
                     i < j /\ IsWorking(out[i]) /\ IsWorking(out[j]) =>
                        LatencyShown(out[i]) <= LatencyShown(out[j])

-----------------------------------------------------------------------------
(* The mirror cache *)

Caching == entry = "get_cached_mirrors"

\* The start of the latest call before call k that ran a sweep, -1 if none
LastSweepBefore(k) ==
    LET swept == {j \in 1..(k - 1) : cached_calls[j].swept}
    IN  IF swept = {} THEN 0 - 1
        ELSE cached_calls[CHOOSE j \in swept : \A i \in swept : i <= j].at

\* C20: when a get_cached_mirrors(300) call has run a sweep and the next
\* call is made less than 300 s after it, the two calls run exactly that
\* one sweep and return the same result; a call made when no sweep was
\* started in the 300 s before it runs a new sweep.
C20_CacheTTL ==
    Caching =>
        /\ \A k \in 1..(Len(cached_calls) - 1) :
              LET first == cached_calls[k]
                  second == cached_calls[k + 1]
              IN  first.swept /\ second.at - first.at < cache_duration =>
                     /\ ~second.swept
                     /\ first.exc = NoExc /\ second.exc = NoExc
                     /\ second.value = first.value
        /\ \A k \in 1..Len(cached_calls) :
              (\/ LastSweepBefore(k) = 0 - 1
               \/ cached_calls[k].at - LastSweepBefore(k) >= cache_duration)
                 => cached_calls[k].swept

-----------------------------------------------------------------------------
(* Overlapping callers of the mirror cache *)

Overlapping == entry = "concurrent get_cached_mirrors"

\* Positions of a get_cached_mirrors call whose sweep is in progress
SweepInProgress == {"test_mirrors_parallel", "gather", "sort_mirrors_by_speed"}

\* C21: when two get_cached_mirrors calls overlap on an empty or expired
\* cache, at most one sweep is started: while the sweep of one call is in
\* progress the other call never has a sweep of its own in progress.
C21_SingleSweep ==
    Overlapping => ~(pc \in SweepInProgress /\ other.pc \in SweepInProgress)

-----------------------------------------------------------------------------
(* The fastest mirror *)

Ranking == entry = "get_fastest_mirror"

WorkingResults == {i \in 1..Len(results[1]) : results[1][i].speed_ms # NoSpeed}

\* C22: applied to the ranked list of a sweep, get_fastest_mirror returns
\* the display name and url of a working mirror of the sweep whose latency
\* no other working mirror undercuts, and returns None exactly when no
\* mirror of the sweep is working.
C22_FastestMirror ==
    Ranking /\ pc = "Returned" =>
        /\ fastest = NoList <=> WorkingResults = {}
        /\ fastest # NoList =>
              \E i \in WorkingResults :
                 /\ fastest[1].display_name =
                       DisplayTuple(results[1][i]).display_name
                 /\ fastest[1].url = results[1][i].url
                 /\ \A j \in WorkingResults :
                       results[1][i].speed_ms <= results[1][j].speed_ms

\* Of the mirrors of a sweep the slower working one came first and the
\* faster one last, and get_fastest_mirror returned the last one
C22_Witness ==
    /\ Ranking
    /\ pc = "Returned"
    /\ Len(results[1]) = 3
    /\ results[1][1].speed_ms = 12
    /\ results[1][2].speed_ms = NoSpeed
    /\ results[1][3].speed_ms = 9
    /\ fastest # NoList
    /\ fastest[1].url = results[1][3].url

-----------------------------------------------------------------------------
(* No retry across stages *)

\* C23: within one run every stage is attempted at most once: a step of the
\* run starts at most one stage, one that was never started before, and
\* once a stage has raised no step starts any stage, neither the failed
\* one nor an earlier one.
C23_NoRetry ==
    [][Run =>
         /\ stages' # stages =>
               \E s \in {Pipeline[i] : i \in 1..Len(Pipeline)} \ Started :
                  stages' = Append(stages, s)
         /\ pc \in FailurePath => stages' = stages]_vars

\* A run whose second stage raised went through its cleanup to the caller
\* with each of the two stages started once
C23_Witness ==
    /\ Run
    /\ pc = "Failed"
    /\ result = "raised"
    /\ cleanups = 1
    /\ Len(stages) = 2
    /\ stages[1] # stages[2]
    /\ stages[2] \notin completed

-----------------------------------------------------------------------------
(* The steps of InstallBase *)

InstallingBase == entry = "_install_base_system"

BaseSteps ==
    <<"install_base_system", "generate_fstab", "setup_network_in_chroot",
      "copy_installer_files">>

StepIndex(scope) == CHOOSE k \in 1..Len(BaseSteps) : BaseSteps[k] = scope

\* The operations of step k were all executed and succeeded
StepDone(k) ==
    LET prog == InstallBaseProgram(config)
        ops == {i \in 1..Len(prog) :
                   prog[i].scope = BaseSteps[k] /\ prog[i].op # "emit"}
    IN  \A i \in ops :
           \E j \in 1..Len(trace) :
              /\ trace[j].name = prog[i].name
              /\ trace[j].arg = prog[i].arg
              /\ trace[j].scope = prog[i].scope
              /\ trace[j].how = "ok"

\* C24: InstallBase performs the base-package bootstrap, the fstab
\* generation, the DNS and mirror propagation and the copy of the installer
\* files in that order, a step starting only after the steps before it
\* succeeded; when an operation of a step fails no later operation runs and
\* the stage raises InstallationError tagged "Base system installation
\* failed".
C24_BaseSteps ==
    InstallingBase =>
        /\ \A i \in 1..Len(trace) :
              /\ trace[i].scope \in {BaseSteps[k] : k \in 1..Len(BaseSteps)}
              /\ \A k \in 1..(StepIndex(trace[i].scope) - 1) : StepDone(k)
              /\ \A j \in 1..(i - 1) :
                    StepIndex(trace[j].scope) <= StepIndex(trace[i].scope)
              /\ trace[i].how # "ok" =>
                    /\ i = Len(trace)
                    /\ pc = "Raised"
                    /\ exc.type = "InstallationError"
                    /\ exc.msg[1] = "Base system installation failed"
        /\ pc = "Returned" => \A k \in 1..Len(BaseSteps) : StepDone(k)
        /\ pc = "Raised" => trace # << >> /\ trace[Len(trace)].how # "ok"

\* The mirror propagation failed after the bootstrap and the fstab
\* generation succeeded: the copy of the installer files never ran
C24_Witness ==
    /\ InstallingBase
    /\ pc = "Raised"
    /\ StepDone(1)
    /\ StepDone(2)
    /\ trace[Len(trace)].scope = "setup_network_in_chroot"
    /\ trace[Len(trace)].arg = "etc/pacman.d/mirrorlist"
    /\ trace[Len(trace)].how = "fail"

-----------------------------------------------------------------------------
(* Rejection of an unsupported filesystem *)

Unsupported == Partitioning /\ config["filesystem"] \notin FILESYSTEMS

\* C25: auto_partition called with a filesystem outside FILESYSTEMS raises
\* DiskError, and no step of the call invokes an external command or
\* changes the mount state.
C25_RejectedBeforeExecution ==
    [][Unsupported =>
         /\ trace' = trace
         /\ UNCHANGED <<mntExists, rootMounted, bootMounted>>
         /\ pc' \in {"Returned", "Raised"} =>
               pc' = "Raised" /\ exc'.type = "DiskError"]_vars

-----------------------------------------------------------------------------
(* Nesting of the two mounts *)

\* C26: in every state of auto_partition, its failure cleanup included, the
\* boot partition is mounted under <mount>/boot/efi only while the root
\* partition is mounted at the mount point: the mount of boot comes after a
\* successful mount of root, and an umount of root succeeds only when boot
\* is no longer mounted.
C26_BootInsideRoot ==
    Partitioning =>
        /\ bootMounted => rootMounted
        /\ \A i \in 1..Len(trace) :
              /\ trace[i].name = "mount" /\ trace[i].arg = "boot" =>
                    MountedBefore("root", i)
              /\ (/\ trace[i].name = "umount"
                  /\ trace[i].arg = "root"
                  /\ trace[i].scope = "_cleanup_mounts"
                  /\ trace[i].how = "ok") => ~bootMounted

\* This call mounted root, a later step failed, and the cleanup has taken
\* the boot mount off while root is still mounted
C26_Witness ==
    /\ Partitioning
    /\ pc = "CleanupRoot"
    /\ rootMounted
    /\ ~bootMounted
    /\ \E i \in 1..Len(trace) :
          /\ trace[i].name = "mount" /\ trace[i].arg = "root"
          /\ trace[i].how = "ok"
          /\ \E k \in UnmountsAfter("boot", i) : trace[k].how = "ok"

-----------------------------------------------------------------------------
(* The swap file *)

\* Positions of the trace where fallocate created the swap file
Allocations ==
    {i \in 1..Len(trace) :
        trace[i].name = "fallocate" /\ trace[i].how = "ok"}

Requests == {i \in 1..Len(trace) : trace[i].name = "fallocate"}

\* The size in MB that fallocate is asked for; a length fallocate refuses
\* allocates nothing
SizeMB(size) ==
    IF ~ValidLength(size) THEN 0
    ELSE IF EndsWith(size, "G") THEN NatOf(AllButLast(size)) * 1024
    ELSE NatOf(AllButLast(size))

\* The size in MB of the swap file the call asked for: none when
\* _create_swap_file never got to fallocate
SwapFileMB ==
    IF Requests = {} THEN 0
    ELSE SizeMB(trace[CHOOSE i \in Requests : TRUE].msg)

\* C28: for every swap policy and every reading of /proc/meminfo, the
\* unreadable one included, the swap size validate_disk_for_installation
\* budgets for equals the size of the swap file _create_swap_file allocates
\* in the same auto_partition call.
C28_BudgetEqualsSwapFile ==
    Partitioning /\ pc = "Returned" =>
        SwapGB(config["swap_size"], device.ram).gb * 1024 = SwapFileMB

-----------------------------------------------------------------------------
(* Failures of the bootstrap *)

\* The texts the error is made of
Tags(e) == {e.msg[i] : i \in 1..Len(e.msg)}

\* _install_base_system raised because pacstrap ended `how`
BootstrapEnded(how) ==
    /\ InstallingBase
    /\ pc = "Raised"
    /\ trace # << >>
    /\ trace[Len(trace)].name = "pacstrap"
    /\ trace[Len(trace)].how = how

\* C29: a bootstrap that exceeds its timeout and a bootstrap whose tool
\* exits nonzero surface errors with distinguishable tags: the timeout is
\* tagged "timed out" and never "pacstrap failed", the nonzero exit is tagged
\* "pacstrap failed" and never "timed out".
C29_TimeoutAndExitDistinct ==
    /\ BootstrapEnded("timeout") =>
          /\ exc.type = "InstallationError"
          /\ "Base system installation timed out" \in Tags(exc)
          /\ "pacstrap failed" \notin Tags(exc)
    /\ BootstrapEnded("exit") =>
          /\ exc.type = "InstallationError"
          /\ "pacstrap failed" \in Tags(exc)
          /\ "Base system installation timed out" \notin Tags(exc)

\* The bootstrap timed out and the stage raised
C29_Witness == BootstrapEnded("timeout") /\ exc.type = "InstallationError"

-----------------------------------------------------------------------------
(* Validation of a profile in the target *)

InstallingProfiles == entry = "_install_profiles"

\* Positions of the trace where install_profile ran a chroot command
ProfileCommands ==
    {i \in 1..Len(trace) :
        trace[i].scope = "install_profile" /\ trace[i].op = "run"}

\* Position j holds the validation of the call of install_profile that
\* position i belongs to
ValidationOf(j, i) ==
    /\ j < i
    /\ trace[j].op = "check"
    /\ trace[j].name = "validate_profile_in_target"
    /\ trace[j].arg = trace[i].arg
    /\ \A k \in (j + 1)..i : trace[k].op # "call"

\* C30: install_profile runs a chroot command, the profile's entrypoint
\* included, only after validate_profile_in_target succeeded for that
\* profile in the same call; when the bundle is missing or incomplete in the
\* target, the call ends without running any chroot command.
C30_ValidatedBeforeRun ==
    InstallingProfiles =>
        /\ \A i \in ProfileCommands :
              /\ trace[i].arg \in target
              /\ \E j \in 1..(i - 1) :
                    ValidationOf(j, i) /\ trace[j].how = "ok"
        /\ \A j \in 1..Len(trace) :
              trace[j].op = "check" /\ trace[j].how # "ok" =>
                 /\ trace[j].arg \notin target
                 /\ j < Len(trace) => trace[j + 1].scope # "install_profile"
                                      \/ trace[j + 1].op = "call"

\* One profile was refused for its missing bundle, and the entrypoint of a
\* later profile, validated in the target, was run
C30_Witness ==
    /\ InstallingProfiles
    /\ \E j \in 1..Len(trace), i \in ProfileCommands :
          /\ j < i
          /\ trace[j].op = "check" /\ trace[j].how = "fail"
          /\ trace[i].name = "install_script" /\ trace[i].how = "ok"

-----------------------------------------------------------------------------
(* Properties of discover_profiles *)

Discovering == entry = "discover_profiles"

\* The bundle as discover_profiles found it is valid: its install.sh has an
\* execute bit and its package list is a file that is not empty
ValidBundle(b) ==
    /\ b.is_dir
    /\ b.script.exists
    /\ Executable(b.script.mode)
    /\ b.list.exists
    /\ b.list.readable
    /\ b.list.lines # << >>

\* C31: discover_profiles returns a bundle only if its install entrypoint is
\* executable and its package list file is not empty; every other bundle is
\* skipped, and discovery never raises.
C31_OnlyValidBundles ==
    [][Discovering =>
         /\ pc' # "Raised"
         /\ pc = "iterdir" /\ ip <= Len(profiles_dir.entries) =>
               LET b == profiles_dir.entries[ip]
               IN  IF ValidBundle(b)
                   THEN /\ Len(discovered') = Len(discovered) + 1
                        /\ discovered'[Len(discovered')].name = b.name
                   ELSE discovered' = discovered]_vars

\* C32: discover_profiles leaves every profile bundle on disk as it is,
\* file contents and permission bits, whether the bundle is valid or not.
C32_BundlesUnchanged ==
    [][Discovering => profiles_dir' = profiles_dir]_vars

-----------------------------------------------------------------------------
(* Failures of the validation *)

\* The device cannot be queried, is too small or is mounted, or the swap
\* size cannot be read as a number
FailsValidation ==
    \/ ~device.lsblk_ok
    \/ device.size_gb < 20
    \/ device.is_mounted
    \/ SwapGB(config["swap_size"], device.ram).raised

\* C33: validate_disk_for_installation does not raise for a validation
\* failure: for a device that cannot be queried, is too small or is mounted,
\* and for a malformed swap size, it returns the pair (False, reason) with a
\* reason that is not empty, and auto_partition reports that reason.
C33_FailureIsReturned ==
    Partitioning /\ config["filesystem"] \in FILESYSTEMS =>
        LET v == validate_disk_for_installation(device, config["swap_size"])
        IN  /\ v.ok \in BOOLEAN
            /\ ~v.ok => v.reason # ""
            /\ FailsValidation => ~v.ok
            /\ ~v.ok /\ trace # << >> =>
                  /\ Len(trace) = 1
                  /\ exc = DiskError("raise",
                                     <<"Disk validation failed", v.reason>>)

\* The swap size "xG" made int() raise inside the validation of a device
\* that is large enough: auto_partition raised with the reason returned
C33_Witness ==
    /\ Partitioning
    /\ pc = "Raised"
    /\ device.lsblk_ok
    /\ device.size_gb >= 20
    /\ SwapGB(config["swap_size"], device.ram).raised
    /\ exc = DiskError("raise", <<"Disk validation failed", "Validation failed">>)

-----------------------------------------------------------------------------
(* The final sync *)

\* C34: the 100 percent event is emitted and True returned only after the
\* final sync command has completed: _finalize_installation returns only
\* once the sync it started has exited.
C34_SyncCompleted ==
    /\ "Finalize" \in completed => sync = "exited"
    /\ result = "True" => sync = "exited"
    /\ (\E i \in 1..Len(events) : events[i].pct = 100) => sync = "exited"

-----------------------------------------------------------------------------
(* The percentages of InstallProfiles *)

\* The largest number of profiles the percentage is computed for
MaxCount == 12

\* C35: for every number n >= 1 of profiles and every index i in 0..n-1 the
\* percentage 60 + floor(10 * i / n) lies in 60..69 and does not decrease
\* with i, and every progress event of _install_profiles has a percentage
\* in 55..70.
C35_ProfilePercentages ==
    /\ \A n \in 1..MaxCount : \A i \in 0..(n - 1) :
          /\ ProfileProgress(i, n) \in 60..69
          /\ i > 0 => ProfileProgress(i - 1, n) <= ProfileProgress(i, n)
    /\ InstallingProfiles =>
          \A k \in 1..Len(events) : events[k].pct \in 55..70

\* _install_profiles returned after three profiles: the third one was
\* announced at 66 percent
C35_Witness ==
    /\ InstallingProfiles
    /\ pc = "Returned"
    /\ Len(Get(config, "profiles", << >>)) = 3
    /\ \E k \in 1..Len(events) :
          /\ events[k].pct = 66
          /\ events[k].msg[1] = "Installing profile"

-----------------------------------------------------------------------------
(* The caller's configuration *)

\* run_full_installation or one of the stage coroutines it awaits
Installing ==
    entry \in {"run_full_installation", "_install_base_system",
               "_configure_system", "_install_profiles",
               "_finalize_installation"}

\* C36: run_full_installation and the stages it awaits never modify the
\* caller's configuration: every field, the additional-package and the
\* profile list included, keeps its value in every step, whether the call
\* succeeds or fails.
C36_ConfigUnchanged == [][Installing => config' = config]_vars

\* _install_base_system returned after pacstrap installed the base packages
\* and the caller's additional package
C36_Witness ==
    /\ InstallingBase
    /\ pc = "Returned"
    /\ Get(config, "additional_packages", << >>) = <<"vim">>
    /\ \E i \in 1..Len(trace) :
          trace[i].name = "pacstrap" /\ trace[i].how = "ok"

-----------------------------------------------------------------------------
(* The terminal progress event *)

\* Positions of the events that end a run: 100 percent or the negative
\* sentinel
Terminal ==
    {i \in 1..Len(events) : events[i].pct = 100 \/ events[i].pct < 0}

\* C37: a run delivers exactly one terminal progress event, 100 when it
\* succeeds or the negative sentinel when it fails, never both, and no
\* progress event after it.
C37_OneTerminalEvent ==
    Run =>
        /\ Cardinality(Terminal) <= 1
        /\ Terminal \subseteq {Len(events)}
        /\ pc = "Failed" =>
              Terminal # {} /\ events[Len(events)].pct = 0 - 1
        /\ pc = "Done" =>
              Terminal # {} /\ events[Len(events)].pct = 100
        /\ result = "True" <=> pc = "Done"

\* PrepareDisk raised after the events of the start and of the disk
\* preparation: the run ended with the negative sentinel as its last event
C37_Witness ==
    /\ Run
    /\ pc = "Failed"
    /\ Len(stages) = 2
    /\ Len(events) >= 3
    /\ Terminal = {Len(events)}
    /\ events[Len(events)].pct = 0 - 1

-----------------------------------------------------------------------------
(* The cache timestamp under overlapping calls *)

\* C38: under any interleaving of overlapping get_cached_mirrors calls the
\* cache timestamp never decreases: a sweep that started earlier does not
\* overwrite the timestamp written by a sweep that started later.
C38_TimestampMonotonic ==
    [][Overlapping => cache_timestamp' >= cache_timestamp]_vars

-----------------------------------------------------------------------------
(* A sweep that raises *)

\* C39: when the sweep under get_cached_mirrors raises, the call propagates
\* the exception and leaves the cached list and the cache timestamp as they
\* were before the call: the two change only in the step that ends a sweep
\* without an exception, and the call that ends with one delivers it.
C39_FailedSweepKeepsCache ==
    [][Caching =>
         /\ mirror_cache' # mirror_cache \/ cache_timestamp' # cache_timestamp
               => /\ pc = "sort_mirrors_by_speed"
                  /\ exc' = NoExc
                  /\ cached_calls'[Len(cached_calls')].exc = NoExc
         /\ pc = "sort_mirrors_by_speed" /\ exc' # NoExc =>
               /\ Len(cached_calls') = Len(cached_calls) + 1
               /\ cached_calls'[Len(cached_calls')].exc = exc'
               /\ cached_calls'[Len(cached_calls')].value = NoList]_vars

\* The second call swept after the cache of the first one had expired, and
\* its sweep raised: the list and the timestamp of the first call are still
\* in the cache
C39_Witness ==
    /\ Caching
    /\ pc = "Idle"
    /\ Len(cached_calls) = 2
    /\ cached_calls[1].exc = NoExc
    /\ cached_calls[2].swept
    /\ cached_calls[2].exc # NoExc
    /\ mirror_cache = cached_calls[1].value
    /\ mirror_cache # NoList
    /\ cache_timestamp = cached_calls[1].at

====
